---------------------------- MODULE Spec2Model ----------------------------
(***************************************************************************)
(* Model of the RPC evaluation pipeline of backend/app/services:           *)
(*   rpq_syntax.py    (_tokenize, _RPQParser, parse_rpq, parse_rpc)        *)
(*   rpq_inclusion.py (_expand_simple_parentheses, validate_symbols,       *)
(*                     pairs_for_sequence, pairs_for_alts, check_inclusion)*)
(*   measures.py      (fast_violation, one_witness_path_for_sequence,      *)
(*                     compute_measures)                                   *)
(*                                                                         *)
(* Strings are sequences of one-character strings.  The two non-ASCII      *)
(* characters of the surface syntax are written SubCh (U+2286, the         *)
(* inclusion sign) and BarCh (U+2223, the "divides" bar).                  *)
(*                                                                         *)
(* The graph database is a set of nodes and a set of relationships         *)
(* <<source, label, target, copy>>; copy tells parallel relationships of   *)
(* the same type between the same two nodes apart (Neo4j is a multigraph). *)
(***************************************************************************)
EXTENDS Integers, Sequences, FiniteSets, TLC

VARIABLES
    graph,      \* the content of the active Neo4j database
    call,       \* the operation whose result res holds ("none" when idle)
    res         \* the value the operation returned; in SpecCover the locals
                \* of the loop that is running

vars == <<graph, call, res>>

---------------------------------------------------------------------------
(* Bounds of the model *)

NumNodes == 2       \* node ids of the enumerated graphs are 1..NumNodes
MaxRels == 3        \* relationships of an enumerated graph
DenseNodes == 15    \* nodes of the one dense graph (more than 200 pairs)

Labels == {"a", "b"}

---------------------------------------------------------------------------
(* The graph database *)

Src(r) == r[1]
Lbl(r) == r[2]
Dst(r) == r[3]

AllRels == (1..NumNodes) \X Labels \X (1..NumNodes) \X (1..MaxRels)

\* copy k of a relationship is only there when copy k-1 is
CanAdd(R, r) ==
    /\ r \notin R
    /\ r[4] > 1 => <<r[1], r[2], r[3], r[4] - 1>> \in R
    /\ <<r[1], r[2], r[3], r[4] + 1>> \notin R

RECURSIVE RelSets(_)
RelSets(n) ==
    IF n = 0 THEN {{}}
    ELSE LET prev == RelSets(n - 1)
         IN  prev \cup {R \cup {r} : <<R, r>> \in
                          {p \in prev \X AllRels : CanAdd(p[1], p[2])}}

SmallGraphs == {[nodes |-> 1..NumNodes, rels |-> R] : R \in RelSets(MaxRels)}

\* every node has an "a" relationship to every node, itself included
DenseGraph ==
    [nodes |-> 1..DenseNodes,
     rels  |-> {<<u, "a", v, 1>> : u \in 1..DenseNodes, v \in 1..DenseNodes}]

Graphs == SmallGraphs \cup {DenseGraph}

---------------------------------------------------------------------------
(* rpq_inclusion.pairs_for_sequence *)

Atom(inv, rel) == [inv |-> inv, rel |-> rel]

BATCH_SIZE == 10000

\* MATCH (v)-[:rel]->(u) RETURN DISTINCT id(u) AS u, id(v) AS x        (inv)
\* MATCH (u)-[:rel]->(x) RETURN DISTINCT id(u) AS u, id(x) AS x        (else)
FirstStep(g, atom) ==
    IF atom.inv
    THEN {<<Dst(r), Src(r)>> : r \in {q \in g.rels : Lbl(q) = atom.rel}}
    ELSE {<<Src(r), Dst(r)>> : r \in {q \in g.rels : Lbl(q) = atom.rel}}

\* batch[i:i+BATCH_SIZE] for i in range(0, len(batch), BATCH_SIZE); batch is
\* list(start_nodes), here in ascending order (the join does not depend on it)
Chunks(start_nodes) ==
    LET pos(n) == Cardinality({m \in start_nodes : m < n})
        count  == (Cardinality(start_nodes) + BATCH_SIZE - 1) \div BATCH_SIZE
    IN  {{n \in start_nodes : pos(n) \div BATCH_SIZE = i} : i \in 0..(count - 1)}

\* MATCH (v)-[:rel]->(u) WHERE id(v) IN $xs
\*   RETURN DISTINCT id(v) AS x_old, id(u) AS x_new                    (inv)
\* MATCH (x_old)-[:rel]->(x_new) WHERE id(x_old) IN $xs
\*   RETURN DISTINCT id(x_old) AS x_old, id(x_new) AS x_new            (else)
HopRows(g, atom, chunk) ==
    IF atom.inv
    THEN {<<Src(r), Dst(r)>> :
             r \in {q \in g.rels : Lbl(q) = atom.rel /\ Src(q) \in chunk}}
    ELSE {<<Src(r), Dst(r)>> :
             r \in {q \in g.rels : Lbl(q) = atom.rel /\ Src(q) \in chunk}}

\* JoinStep without the test old == x_old
JoinStepNoMatch(g, atom, out) ==
    LET start_nodes == {p[2] : p \in out}
        rows == UNION {HopRows(g, atom, chunk) : chunk \in Chunks(start_nodes)}
    IN  {<<p[1], row[2]>> : <<p, row>> \in out \X rows}

JoinStep(g, atom, out) ==
    LET start_nodes == {p[2] : p \in out}
        rows == UNION {HopRows(g, atom, chunk) : chunk \in Chunks(start_nodes)}
    IN  {<<p[1], row[2]>> : <<p, row>> \in
            {pr \in out \X rows : pr[1][2] = pr[2][1]}}

RECURSIVE JoinFrom(_, _, _, _)
JoinFrom(g, seq, i, out) ==
    IF i > Len(seq) THEN out
    ELSE LET new_pairs == JoinStep(g, seq[i], out)
         IN  IF new_pairs = {} THEN {}
             ELSE JoinFrom(g, seq, i + 1, new_pairs)

PairsForSequence(g, seq) ==
    IF seq = <<>> THEN {}
    ELSE LET out == FirstStep(g, seq[1])
         IN  IF out = {} THEN {} ELSE JoinFrom(g, seq, 2, out)

---------------------------------------------------------------------------
(* Strings: sequences of one-character strings *)

SubCh == "U+2286"   \* the inclusion sign
BarCh == "U+2223"   \* the "divides" bar accepted as alternation

Letters == {"a", "b", "c", "d", "C", "x"}
Digits == {"1", "2"}

IsSpace(ch) == ch = " "
IsAlpha(ch) == ch \in Letters
IsAlnum(ch) == ch \in Letters \cup Digits

\* s[i:j] of Python, with i and j 1-based: the characters i..j-1
Slice(s, i, j) == IF j <= i THEN <<>> ELSE SubSeq(s, i, j - 1)

RECURSIVE LStrip(_)
LStrip(s) ==
    IF s # <<>> /\ IsSpace(Head(s)) THEN LStrip(Tail(s)) ELSE s

RECURSIVE RStrip(_)
RStrip(s) ==
    IF s # <<>> /\ IsSpace(s[Len(s)]) THEN RStrip(SubSeq(s, 1, Len(s) - 1))
    ELSE s

\* str.strip()
Strip(s) == RStrip(LStrip(s))

\* str.replace(old, new) for a one-character old
ReplaceChar(s, old, new) == [i \in 1..Len(s) |-> IF s[i] = old THEN new ELSE s[i]]

\* str.replace("<=", SubCh): leftmost, non-overlapping occurrences
RECURSIVE ReplaceLe(_)
ReplaceLe(s) ==
    IF Len(s) < 2 THEN s
    ELSE IF s[1] = "<" /\ s[2] = "="
         THEN <<SubCh>> \o ReplaceLe(SubSeq(s, 3, Len(s)))
         ELSE <<s[1]>> \o ReplaceLe(Tail(s))

\* str.find(ch), 1-based; 0 when ch does not occur (Python's -1)
Find(s, ch) ==
    IF \E i \in 1..Len(s) : s[i] = ch
    THEN CHOOSE i \in 1..Len(s) : s[i] = ch /\ \A j \in 1..(i - 1) : s[j] # ch
    ELSE 0

\* str.split(ch)
RECURSIVE Split(_, _)
Split(s, ch) ==
    LET k == Find(s, ch)
    IN  IF k = 0 THEN <<s>>
        ELSE <<Slice(s, 1, k)>> \o Split(SubSeq(s, k + 1, Len(s)), ch)

EndsWith(s, ch) == s # <<>> /\ s[Len(s)] = ch

\* the Python str a character slice stands for
RECURSIVE JoinChars(_)
JoinChars(s) == IF s = <<>> THEN "" ELSE Head(s) \o JoinChars(Tail(s))

---------------------------------------------------------------------------
(* rpq_syntax._tokenize *)

\* a token that loses its text
TokNoValue(kind, val) == [kind |-> kind, val |-> ""]

Tok(kind, val) == [kind |-> kind, val |-> val]

Failure(msg) == [ok |-> FALSE, err |-> msg]

\* the end of the identifier that starts before i: first index that is not
\* alphanumeric or '_'
RECURSIVE IdentEnd(_, _)
IdentEnd(expr, i) ==
    IF i <= Len(expr) /\ (IsAlnum(expr[i]) \/ expr[i] = "_")
    THEN IdentEnd(expr, i + 1) ELSE i

RECURSIVE TokenizeFrom(_, _, _)
TokenizeFrom(expr, i, tokens) ==
    IF i > Len(expr) THEN [ok |-> TRUE, toks |-> Append(tokens, Tok("EOF", ""))]
    ELSE LET ch == expr[i]
         IN  CASE IsSpace(ch) -> TokenizeFrom(expr, i + 1, tokens)
               [] ch = ";" -> [ok |-> TRUE, toks |-> Append(tokens, Tok("EOF", ""))]
               [] ch = "(" -> TokenizeFrom(expr, i + 1, Append(tokens, Tok("LPAREN", ch)))
               [] ch = ")" -> TokenizeFrom(expr, i + 1, Append(tokens, Tok("RPAREN", ch)))
               [] ch = "|" \/ ch = BarCh ->
                      TokenizeFrom(expr, i + 1, Append(tokens, Tok("OR", "|")))
               [] ch = "." -> TokenizeFrom(expr, i + 1, Append(tokens, Tok("DOT", ".")))
               [] ch = "*" -> TokenizeFrom(expr, i + 1, Append(tokens, Tok("STAR", "*")))
               [] IsAlpha(ch) \/ ch = "_" ->
                      LET end == IdentEnd(expr, i + 1)
                      IN  TokenizeFrom(expr, end,
                             Append(tokens, Tok("IDENT", JoinChars(Slice(expr, i, end)))))
               [] OTHER -> Failure("Carattere non valido nella RPQ")

Tokenize(expr) == TokenizeFrom(Strip(expr), 1, <<>>)

---------------------------------------------------------------------------
(* rpq_syntax._RPQParser: every method returns the alternatives it parsed    *)
(* and the position it stopped at, or the ValueError it raised.  A method's  *)
(* local variable is the parameter of the operator that continues it.        *)

Parsed(alts, pos) == [ok |-> TRUE, alts |-> alts, pos |-> pos]

\* [a + b for a in left for b in right]
ProductAlts(left, right) ==
    [k \in 1..(Len(left) * Len(right)) |->
        left[((k - 1) \div Len(right)) + 1] \o right[((k - 1) % Len(right)) + 1]]

\* the concatenation that pairs every left alternative with the first right one
ConcatAltsFirstRight(left, right) ==
    IF left = <<>> THEN right
    ELSE IF right = <<>> THEN left
    ELSE [k \in 1..Len(left) |-> left[k] \o right[1]]

ConcatAlts(left, right) ==
    IF left = <<>> THEN right
    ELSE IF right = <<>> THEN left
    ELSE ProductAlts(left, right)

MaxRepeat == 3

RECURSIVE KleeneLoop(_, _, _, _)
KleeneLoop(alts, result, current, n) ==
    IF n = 0 THEN result
    ELSE KleeneLoop(alts, result \o current, ProductAlts(current, alts), n - 1)

\* the expansion with one repetition less
KleeneStarShort(alts, max_repeat) == KleeneLoop(alts, <<<<>>>>, alts, max_repeat - 1)

KleeneStar(alts, max_repeat) == KleeneLoop(alts, <<<<>>>>, alts, max_repeat)

RECURSIVE ParseAlt(_, _)
RECURSIVE AltLoop(_, _, _)
RECURSIVE ParseConcat(_, _)
RECURSIVE ConcatLoop(_, _, _)
RECURSIVE ParseFactor(_, _)
RECURSIVE ParseBase(_, _)

\* self._expect("RPAREN"); return inner
ExpectRparen(toks, inner) ==
    IF ~inner.ok THEN inner
    ELSE IF toks[inner.pos].kind # "RPAREN" THEN Failure("Atteso token RPAREN")
    ELSE Parsed(inner.alts, inner.pos + 1)

\* BASE := IDENT | '(' ALT ')'
ParseBase(toks, pos) ==
    IF toks[pos].kind = "IDENT"
    THEN Parsed(<<<<Atom(FALSE, toks[pos].val)>>>>, pos + 1)
    ELSE IF toks[pos].kind = "LPAREN"
    THEN ExpectRparen(toks, ParseAlt(toks, pos + 1))
    ELSE Failure("Token inatteso in fattore RPQ")

\* if self._peek()[0] == "STAR": return self._kleene_star(base)
StarAfter(toks, base) ==
    IF ~base.ok THEN base
    ELSE IF toks[base.pos].kind = "STAR"
         THEN Parsed(KleeneStar(base.alts, MaxRepeat), base.pos + 1)
         ELSE base

\* FACTOR := BASE ('STAR')?
ParseFactor(toks, pos) == StarAfter(toks, ParseBase(toks, pos))

\* alts = self._concat_alts(alts, rhs), and the loop goes on
ConcatWith(toks, alts, rhs) ==
    IF ~rhs.ok THEN rhs
    ELSE ConcatLoop(toks, ConcatAlts(alts, rhs.alts), rhs.pos)

ConcatLoop(toks, alts, pos) ==
    IF toks[pos].kind = "DOT"
    THEN ConcatWith(toks, alts, ParseFactor(toks, pos + 1))
    ELSE IF toks[pos].kind \in {"IDENT", "LPAREN"}
    THEN ConcatWith(toks, alts, ParseFactor(toks, pos))     \* implicit
    ELSE Parsed(alts, pos)

ConcatAfter(toks, first) ==
    IF ~first.ok THEN first ELSE ConcatLoop(toks, first.alts, first.pos)

\* CONCAT := FACTOR ( (DOT)? FACTOR )*
ParseConcat(toks, pos) == ConcatAfter(toks, ParseFactor(toks, pos))

\* alts.extend(right), and the loop goes on
AltWith(toks, alts, right) ==
    IF ~right.ok THEN right
    ELSE AltLoop(toks, alts \o right.alts, right.pos)

AltLoop(toks, alts, pos) ==
    IF toks[pos].kind = "OR"
    THEN AltWith(toks, alts, ParseConcat(toks, pos + 1))
    ELSE Parsed(alts, pos)

AltAfter(toks, first) ==
    IF ~first.ok THEN first ELSE AltLoop(toks, first.alts, first.pos)

\* ALT := CONCAT ( 'OR' CONCAT )*
ParseAlt(toks, pos) == AltAfter(toks, ParseConcat(toks, pos))

EndOfRpq(toks, r) ==
    IF ~r.ok THEN r
    ELSE IF toks[r.pos].kind \notin {"EOF", "RPAREN"}
         THEN Failure("Token inatteso alla fine della RPQ")
         ELSE [ok |-> TRUE, alts |-> r.alts]

\* _RPQParser.parse_rpq
ParserParseRpq(toks) == EndOfRpq(toks, ParseAlt(toks, 1))

ParseTokens(t) == IF ~t.ok THEN t ELSE ParserParseRpq(t.toks)

\* rpq_syntax.parse_rpq
ParseRpq(expr) == ParseTokens(Tokenize(ReplaceChar(Strip(expr), BarCh, "|")))

---------------------------------------------------------------------------
(* rpq_syntax.parse_rpc *)

\* return name, lhs_alts, rhs_alts
RpcResult(name, lhs_alts, rhs_alts) ==
    IF ~lhs_alts.ok THEN lhs_alts
    ELSE IF ~rhs_alts.ok THEN rhs_alts
    ELSE [ok |-> TRUE, name |-> JoinChars(name),
          lhs |-> lhs_alts.alts, rhs |-> rhs_alts.alts]

RpcSides(name, lhs_str, rhs_str) ==
    IF lhs_str = <<>> \/ rhs_str = <<>>
    THEN Failure("Parte sinistra o destra vuota nel vincolo RPC")
    ELSE RpcResult(name, ParseRpq(lhs_str), ParseRpq(rhs_str))

\* if rhs_str.endswith(";"): rhs_str = rhs_str[:-1].strip()
DropSemicolon(str) ==
    IF EndsWith(str, ";") THEN Strip(SubSeq(str, 1, Len(str) - 1)) ELSE str

\* the split that takes a body without a name
RpcPartsUnnamed(name, parts) ==
    IF Len(parts) # 2
    THEN Failure("Il vincolo deve contenere esattamente un simbolo di inclusione")
    ELSE RpcSides(name, Strip(parts[1]), DropSemicolon(Strip(parts[2])))

RpcParts(name, parts) ==
    IF name = <<>> THEN Failure("Nome del vincolo mancante")
    ELSE IF Len(parts) # 2
         THEN Failure("Il vincolo deve contenere esattamente un simbolo di inclusione")
    ELSE RpcSides(name, Strip(parts[1]), DropSemicolon(Strip(parts[2])))

RpcSplitAt(s, name_end) ==
    RpcParts(Strip(Slice(s, 1, name_end)),
             Split(Strip(SubSeq(s, name_end + 1, Len(s))), SubCh))

RpcName(s, eq_pos, colon_pos) ==
    IF eq_pos = 0 /\ colon_pos = 0 THEN Failure("Manca '=' o ':' nel vincolo RPC")
    ELSE IF eq_pos # 0 /\ (colon_pos = 0 \/ eq_pos < colon_pos)
         THEN RpcSplitAt(s, eq_pos)
         ELSE RpcSplitAt(s, colon_pos)

RpcNormalised(s) == RpcName(s, Find(s, "="), Find(s, ":"))

RpcStripped(s) ==
    IF s = <<>> THEN Failure("Vincolo vuoto")
    ELSE RpcNormalised(ReplaceLe(DropSemicolon(s)))

ParseRpc(constraint_str) == RpcStripped(Strip(constraint_str))

---------------------------------------------------------------------------
(* rpq_inclusion._expand_simple_parentheses                                  *)
(* pattern: group 1 is word(.word)..., then ".(", group 2 a word, spaces,  *)
(* the bar, spaces, group 3 a word, then ")"; a word is one or more of \w    *)

IsWord(ch) == IsAlnum(ch) \/ ch = "_"

At(s, i) == IF i >= 1 /\ i <= Len(s) THEN s[i] ELSE "<end>"

\* [\w_]+ is greedy: the first index at or after i that holds no word character
RECURSIVE WordEnd(_, _)
WordEnd(s, i) == IF IsWord(At(s, i)) THEN WordEnd(s, i + 1) ELSE i

\* \s*
RECURSIVE SpaceEnd(_, _)
SpaceEnd(s, i) == IF IsSpace(At(s, i)) THEN SpaceEnd(s, i + 1) ELSE i

\* (?:\.[\w_]+)* from i on: the end of the last ".word" group
RECURSIVE GroupsEnd(_, _)
GroupsEnd(s, i) ==
    IF At(s, i) = "." /\ IsWord(At(s, i + 1))
    THEN GroupsEnd(s, WordEnd(s, i + 1)) ELSE i

\* the groups between the given positions, when the text matches there
MatchGroups(s, i, p_end, a_end, bar, b_beg, b_end) ==
    IF /\ IsWord(At(s, i))
       /\ At(s, p_end) = "." /\ At(s, p_end + 1) = "("
       /\ a_end > p_end + 2
       /\ At(s, bar) = BarCh
       /\ b_end > b_beg
       /\ At(s, b_end) = ")"
    THEN [ok |-> TRUE, start |-> i, end |-> b_end + 1,
          prefix |-> Slice(s, i, p_end),
          a |-> Slice(s, p_end + 2, a_end),
          b |-> Slice(s, b_beg, b_end)]
    ELSE [ok |-> FALSE]

MatchB(s, i, p_end, a_end, bar, b_beg) ==
    MatchGroups(s, i, p_end, a_end, bar, b_beg, WordEnd(s, b_beg))

MatchBar(s, i, p_end, a_end, bar) ==
    MatchB(s, i, p_end, a_end, bar, SpaceEnd(s, bar + 1))

MatchA(s, i, p_end, a_end) == MatchBar(s, i, p_end, a_end, SpaceEnd(s, a_end))

MatchPrefix(s, i, p_end) == MatchA(s, i, p_end, WordEnd(s, p_end + 2))

\* the match of the pattern that starts at i, if there is one
MatchAt(s, i) == MatchPrefix(s, i, GroupsEnd(s, WordEnd(s, i)))

\* the first of the matches at the successive start positions
FirstMatch(matches) ==
    IF \E i \in 1..Len(matches) : matches[i].ok
    THEN matches[CHOOSE i \in 1..Len(matches) :
                    matches[i].ok /\ \A j \in 1..(i - 1) : ~matches[j].ok]
    ELSE [ok |-> FALSE]

\* pattern.search(s): the leftmost match
Search(s) == FirstMatch([i \in 1..Len(s) |-> MatchAt(s, i)])

RECURSIVE ExpandLoop(_)

\* s = s[:m.start()] + replacement + s[m.end():], and the loop goes on
Rewrite(s, m) ==
    IF ~m.ok THEN s
    ELSE ExpandLoop(Slice(s, 1, m.start)
                    \o m.prefix \o <<".">> \o m.a \o <<BarCh>>
                    \o m.prefix \o <<".">> \o m.b
                    \o SubSeq(s, m.end, Len(s)))

ExpandLoop(s) == Rewrite(s, Search(s))

ExpandSimpleParentheses(constraint_str) ==
    ExpandLoop(ReplaceChar(constraint_str, "|", BarCh))

---------------------------------------------------------------------------
(* rpq_inclusion.validate_symbols, pairs_for_alts, check_inclusion *)

RECURSIVE Flatten(_)
Flatten(seqs) == IF seqs = <<>> THEN <<>> ELSE Head(seqs) \o Flatten(Tail(seqs))

\* the str of n blanks
RECURSIVE Spaces(_)
Spaces(n) == IF n = 0 THEN "" ELSE " " \o Spaces(n - 1)

\* not sym.strip(): the label is made of blanks only
IsBlank(sym) == sym = Spaces(Len(sym))

\* one error per atom whose label is empty after strip()
ValidateSymbols(lhs_alts, rhs_alts) ==
    LET atoms == Flatten(lhs_alts \o rhs_alts)
        empty == SelectSeq(atoms, LAMBDA at : IsBlank(at.rel))
    IN  [i \in 1..Len(empty) |-> "Simbolo vuoto in un vincolo"]

RECURSIVE PairsForAltsFrom(_, _, _, _)
PairsForAltsFrom(g, alts, i, out) ==
    IF i > Len(alts) THEN out
    ELSE PairsForAltsFrom(g, alts, i + 1, out \cup PairsForSequence(g, alts[i]))

\* PairsForAlts that stops one alternative early
PairsForAltsShort(g, alts) == PairsForAltsFrom(g, SubSeq(alts, 1, Len(alts) - 1), 1, {})

PairsForAlts(g, alts) == PairsForAltsFrom(g, alts, 1, {})

\* sorted() of a set of pairs of node ids: ascending by first, then second
PairLess(p, q) == p[1] < q[1] \/ (p[1] = q[1] /\ p[2] < q[2])

\* the pairs over lo..hi in ascending order, those of S kept
SortedWithin(S, lo, w) ==
    SelectSeq([k \in 1..(w * w) |-> <<lo + ((k - 1) \div w), lo + ((k - 1) % w)>>],
              LAMBDA p : p \in S)

SortedBetween(S, lo, hi) == SortedWithin(S, lo, hi - lo + 1)

SortedOver(S, ids) ==
    IF ids = {} THEN <<>>
    ELSE SortedBetween(S, CHOOSE n \in ids : \A m \in ids : n <= m,
                       CHOOSE n \in ids : \A m \in ids : n >= m)

Sorted(S) == SortedOver(S, {p[1] : p \in S} \cup {p[2] : p \in S})

VIOLATIONS_CAP == 200

\* lst[:n]
Take(lst, n) == SubSeq(lst, 1, IF Len(lst) < n THEN Len(lst) ELSE n)

InclusionReport(name, lhs_pairs, rhs_pairs, violations) ==
    [ok |-> Len(violations) = 0,
     name |-> name,
     lhs_pairs |-> Cardinality(lhs_pairs),
     rhs_pairs |-> Cardinality(rhs_pairs),
     violations |-> Take(violations, VIOLATIONS_CAP),
     violations_count |-> Len(violations)]

InclusionOfPairs(name, lhs_pairs, rhs_pairs) ==
    InclusionReport(name, lhs_pairs, rhs_pairs, Sorted(lhs_pairs \ rhs_pairs))

InclusionValidated(g, rpc, schema_errors) ==
    IF schema_errors # <<>>
    THEN [ok |-> FALSE, type |-> "schema_validation",
          errors |-> schema_errors, name |-> rpc.name]
    ELSE InclusionOfPairs(rpc.name, PairsForAlts(g, rpc.lhs), PairsForAlts(g, rpc.rhs))

\* a ValueError of parse_rpc leaves check_inclusion as it is
InclusionParsed(g, rpc) ==
    IF ~rpc.ok THEN [raised |-> "ValueError", msg |-> rpc.err]
    ELSE InclusionValidated(g, rpc, ValidateSymbols(rpc.lhs, rpc.rhs))

CheckInclusion(g, constraint_str) ==
    InclusionParsed(g, ParseRpc(ExpandSimpleParentheses(constraint_str)))

---------------------------------------------------------------------------
(* measures.fast_violation and one_witness_path_for_sequence: each query is  *)
(* one MATCH of a whole linear pattern (n0)-[:R1]->(n1)-[:R2]->(n2)...       *)

FAST_LIMIT == 20

\* the labels of a sequence: the patterns are built from the labels alone
RelsOf(seq) == [i \in 1..Len(seq) |-> seq[i].rel]

\* a match of a pattern: the node bound to n0 and the relationships in order
Match(n0, rels) == [n0 |-> n0, rels |-> rels]

LastNode(m) == IF m.rels = <<>> THEN m.n0 ELSE Dst(m.rels[Len(m.rels)])

\* RETURN id(n0) AS u, id(n_last) AS v
RowPair(m) == <<m.n0, LastNode(m)>>

\* one more hop of the pattern; Cypher binds a relationship at most once
\* in the matches of one MATCH pattern
ExtendMatches(g, label, partial) ==
    {Match(x[1].n0, Append(x[1].rels, x[2])) :
        x \in {y \in partial \X g.rels :
                  /\ Lbl(y[2]) = label
                  /\ Src(y[2]) = LastNode(y[1])
                  /\ \A i \in 1..Len(y[1].rels) : y[1].rels[i] # y[2]}}

RECURSIVE MatchesFrom(_, _, _, _)
MatchesFrom(g, labels, i, partial) ==
    IF i > Len(labels) THEN partial
    ELSE MatchesFrom(g, labels, i + 1, ExtendMatches(g, labels[i], partial))

\* MATCH (n0)-[:R1]->(n1)...; the pattern of the empty sequence is (n0)
MatchPattern(g, labels) ==
    MatchesFrom(g, labels, 1, {Match(n, <<>>) : n \in g.nodes})

\* EXISTS { MATCH rhs_pattern WHERE id(m0)=id(n0) AND id(m_last)=id(n_last) }
ExistsPattern(g, labels, u, v) ==
    \E m \in MatchPattern(g, labels) : m.n0 = u /\ LastNode(m) = v

\* the rows of the query of one LHS alternative, before LIMIT; with no RHS
\* alternative the disjunction is empty and every match is a row
ViolationRows(g, lhs, rhs_alts) ==
    {m \in MatchPattern(g, RelsOf(lhs)) :
        ~ \E j \in 1..Len(rhs_alts) :
              ExistsPattern(g, RelsOf(rhs_alts[j]), m.n0, LastNode(m))}

\* LIMIT 20 keeps any 20 rows: the sets of pairs the kept rows can show
Samples(rows) ==
    IF Cardinality(rows) <= FAST_LIMIT THEN {{RowPair(m) : m \in rows}}
    ELSE {P \in SUBSET {RowPair(m) : m \in rows} :
             /\ P # {}
             /\ Cardinality(P) <= FAST_LIMIT
             /\ Cardinality({m \in rows : RowPair(m) \in P}) >= FAST_LIMIT}

FastResult(has_violation, pairs) ==
    [has_violation |-> has_violation, pairs |-> pairs]

RECURSIVE FastViolationFrom(_, _, _, _)

\* if rows: ... return True, violations
FastRows(g, lhs_alts, rhs_alts, i, rows) ==
    IF rows # {} THEN {FastResult(TRUE, P) : P \in Samples(rows)}
    ELSE FastViolationFrom(g, lhs_alts, rhs_alts, i + 1)

FastViolationFrom(g, lhs_alts, rhs_alts, i) ==
    IF i > Len(lhs_alts) THEN {FastResult(FALSE, {})}
    ELSE FastRows(g, lhs_alts, rhs_alts, i, ViolationRows(g, lhs_alts[i], rhs_alts))

\* the results fast_violation can return
FastViolation(g, lhs_alts, rhs_alts) == FastViolationFrom(g, lhs_alts, rhs_alts, 1)

\* [(row[n_i], row[n_i+1], rel) for i, (_, rel) in enumerate(seq)]
PathOf(m) ==
    [i \in 1..Len(m.rels) |-> <<Src(m.rels[i]), Dst(m.rels[i]), Lbl(m.rels[i])>>]

\* LIMIT 1 keeps any one row
WitnessRows(rows) == IF rows = {} THEN {<<>>} ELSE {PathOf(m) : m \in rows}

\* the paths one_witness_path_for_sequence can return
OneWitnessPathForSequence(g, seq, u_id, v_id) ==
    IF \E i \in 1..Len(seq) : seq[i].inv THEN {<<>>}
    ELSE WitnessRows({m \in MatchPattern(g, RelsOf(seq)) :
                         m.n0 = u_id /\ LastNode(m) = v_id})

---------------------------------------------------------------------------
(* measures.compute_measures.  The operators return the set of the results  *)
(* the call can have: LIMIT leaves the rows a query keeps open, max() the   *)
(* vertex it picks among equals.  The problematic pairs are visited in      *)
(* ascending order; no value of the summary depends on the order.           *)

BASE_MEASURES == {"mu_drastic", "mu_violated_constraints", "problematic_pairs"}

PATH_MEASURES ==
    {"minimal_problematic_graphs", "minimal_problematic_paths", "problematic_edges",
     "problematic_labels", "problematic_vertices", "I_E_minus"}

DEFAULT_MEASURES ==
    {"mu_drastic", "mu_violated_constraints", "problematic_pairs",
     "minimal_problematic_graphs", "minimal_problematic_paths", "problematic_edges",
     "problematic_labels", "problematic_vertices", "I_E_minus", "I_E_plus", "I_V_minus"}

\* requested_measures is None (the empty option) or a list of names
RequestedSet(requested_measures) ==
    IF requested_measures = {} THEN DEFAULT_MEASURES
    ELSE CHOOSE req \in requested_measures : TRUE

EmptyDict == [k \in {} |-> 0]

\* summary[key] = value
Put(summary, key, value) ==
    [k \in DOMAIN summary \cup {key} |-> IF k = key THEN value ELSE summary[k]]

\* if key in req: summary[stored_as] = value
PutIf(req, key, summary, stored_as, value) ==
    IF key \in req THEN Put(summary, stored_as, value) ELSE summary

\* the locals of the loop over the constraints
LoopStart ==
    [violated_constraints |-> 0, fast_pairs |-> {}, per_constraint |-> <<>>,
     all_lhs |-> <<>>, all_rhs |-> <<>>]

SchemaInvalid(acc, rpc, errors) ==
    [acc EXCEPT !.violated_constraints = @ + 1,
                !.per_constraint = Append(@, [name |-> rpc.name, ok |-> FALSE,
                                              type |-> "schema_validation",
                                              errors |-> errors])]

Evaluated(acc, rpc, fv) ==
    [violated_constraints |->
         IF fv.has_violation THEN acc.violated_constraints + 1
         ELSE acc.violated_constraints,
     fast_pairs |->
         IF fv.has_violation THEN acc.fast_pairs \cup fv.pairs ELSE acc.fast_pairs,
     per_constraint |->
         Append(acc.per_constraint,
                [name |-> rpc.name, ok |-> ~fv.has_violation, lhs_pairs |-> "FAST",
                 rhs_pairs |-> "FAST", violations_count |-> Cardinality(fv.pairs)]),
     all_lhs |-> acc.all_lhs \o rpc.lhs,
     all_rhs |-> acc.all_rhs \o rpc.rhs]

\* need_fast = req & {...}; fast_violation(lhs, rhs) or (False, set())
FastCheck(g, req, rpc) ==
    IF req \cap BASE_MEASURES # {} THEN FastViolation(g, rpc.lhs, rpc.rhs)
    ELSE {FastResult(FALSE, {})}

RECURSIVE ConstraintLoop(_, _, _, _, _)

ConstraintChecked(g, constraints, req, i, acc, rpc, errors) ==
    IF errors # <<>>
    THEN ConstraintLoop(g, constraints, req, i + 1, SchemaInvalid(acc, rpc, errors))
    ELSE UNION {ConstraintLoop(g, constraints, req, i + 1, Evaluated(acc, rpc, fv)) :
                   fv \in FastCheck(g, req, rpc)}

\* the loop that goes on to the next constraint after a ValueError
ConstraintParsedSkipping(g, constraints, req, i, acc, rpc) ==
    IF ~rpc.ok THEN ConstraintLoop(g, constraints, req, i + 1, acc)
    ELSE ConstraintChecked(g, constraints, req, i, acc, rpc,
                           ValidateSymbols(rpc.lhs, rpc.rhs))

\* a ValueError of parse_rpc leaves compute_measures as it is
ConstraintParsed(g, constraints, req, i, acc, rpc) ==
    IF ~rpc.ok THEN {[raised |-> "ValueError", msg |-> rpc.err]}
    ELSE ConstraintChecked(g, constraints, req, i, acc, rpc,
                           ValidateSymbols(rpc.lhs, rpc.rhs))

\* for raw in constraints: ...
ConstraintLoop(g, constraints, req, i, acc) ==
    IF i > Len(constraints) THEN {acc}
    ELSE ConstraintParsed(g, constraints, req, i, acc,
                          ParseRpc(ExpandSimpleParentheses(constraints[i])))

BaseSummary(req, acc) ==
    PutIf(req, "problematic_pairs",
          PutIf(req, "mu_violated_constraints",
                PutIf(req, "mu_drastic", EmptyDict,
                      "mu_drastic", IF acc.violated_constraints > 0 THEN 1 ELSE 0),
                "mu_violated_constraints", acc.violated_constraints),
          "problematic_pairs", Cardinality(acc.fast_pairs))

\* the returned dict, with the list of witness paths the call collected
MeasuresResult(summary, per_constraint, pairs, MIMS, minimal_paths, witness_paths) ==
    [summary |-> summary,
     details |-> [per_constraint |-> per_constraint, pairs |-> pairs,
                  MIMS |-> MIMS, minimal_paths |-> minimal_paths],
     witness_paths |-> witness_paths]

FastExit(summary, acc) ==
    MeasuresResult(summary, acc.per_constraint, acc.fast_pairs, <<>>, <<>>, <<>>)

\* for seq in seqs: all_pairs |= pairs_for_sequence(seq)
AllPairs(g, seqs) == PairsForAltsFrom(g, seqs, 1, {})

RECURSIVE FirstWitness(_, _, _, _, _)

\* the loop without the break: the path of a later sequence may be the one kept
FirstWitnessOrLater(g, all_lhs, k, u, v, found) ==
    IF found = {<<>>} THEN FirstWitness(g, all_lhs, k + 1, u, v)
    ELSE found \cup (FirstWitness(g, all_lhs, k + 1, u, v) \ {<<>>})

\* if p: witness_paths.append(p); break
FirstWitnessOr(g, all_lhs, k, u, v, found) ==
    IF found = {<<>>} THEN FirstWitness(g, all_lhs, k + 1, u, v) ELSE found

\* for seq in all_lhs: p = one_witness_path_for_sequence(seq, u, v)
FirstWitness(g, all_lhs, k, u, v) ==
    IF k > Len(all_lhs) THEN {<<>>}
    ELSE FirstWitnessOr(g, all_lhs, k, u, v,
                        OneWitnessPathForSequence(g, all_lhs[k], u, v))

AppendPath(witness_paths, p) ==
    IF p = <<>> THEN witness_paths ELSE Append(witness_paths, p)

\* for (u, v) in all_problem_pairs: ...
RECURSIVE WitnessPaths(_, _, _, _, _)
WitnessPaths(g, all_lhs, pairs, i, witness_paths) ==
    IF i > Len(pairs) THEN {witness_paths}
    ELSE UNION {WitnessPaths(g, all_lhs, pairs, i + 1, AppendPath(witness_paths, p)) :
                   p \in FirstWitness(g, all_lhs, 1, pairs[i][1], pairs[i][2])}

\* set(P), frozenset(p)
EdgesOf(p) == {p[i] : i \in 1..Len(p)}

ProbEdges(witness_paths) ==
    UNION {EdgesOf(witness_paths[i]) : i \in 1..Len(witness_paths)}

ProbLabels(witness_paths) == {e[3] : e \in ProbEdges(witness_paths)}

ProbVertices(witness_paths) ==
    {e[1] : e \in ProbEdges(witness_paths)} \cup {e[2] : e \in ProbEdges(witness_paths)}

\* all(not (set(plist[j]).issubset(setP) and len(plist[j]) < len(P)) for j != i)
IsMinimalPath(plist, i) ==
    \A j \in 1..Len(plist) :
        j # i => ~(/\ EdgesOf(plist[j]) \subseteq EdgesOf(plist[i])
                   /\ Len(plist[j]) < Len(plist[i]))

RECURSIVE MinimalPathsFrom(_, _, _)
MinimalPathsFrom(plist, i, minimal_paths) ==
    IF i > Len(plist) THEN minimal_paths
    ELSE MinimalPathsFrom(plist, i + 1,
                          IF IsMinimalPath(plist, i) THEN Append(minimal_paths, plist[i])
                          ELSE minimal_paths)

MinimalPaths(req, witness_paths) ==
    IF "minimal_problematic_paths" \in req THEN MinimalPathsFrom(witness_paths, 1, <<>>)
    ELSE <<>>

\* all(not (path_sets[j] <= S) ...): an equal set counts as a subset
IsMinimalSetOrEqual(path_sets, i) ==
    \A j \in 1..Len(path_sets) : j # i => ~(path_sets[j] \subseteq path_sets[i])

\* the test against the two neighbours in the list only
IsMinimalSetAmongNeighbours(path_sets, i) ==
    \A j \in {i - 1, i + 1} \cap (1..Len(path_sets)) :
        ~(path_sets[j] \subseteq path_sets[i] /\ path_sets[j] # path_sets[i])

\* all(not (path_sets[j] < S) for j in range(len(path_sets)) if j != i)
IsMinimalSet(path_sets, i) ==
    \A j \in 1..Len(path_sets) :
        j # i => ~(path_sets[j] \subseteq path_sets[i] /\ path_sets[j] # path_sets[i])

RECURSIVE MinimalSetsFrom(_, _, _)
MinimalSetsFrom(path_sets, i, minimal_sets) ==
    IF i > Len(path_sets) THEN minimal_sets
    ELSE MinimalSetsFrom(path_sets, i + 1,
                         IF IsMinimalSet(path_sets, i)
                         THEN Append(minimal_sets, path_sets[i])
                         ELSE minimal_sets)

MinimalSets(req, witness_paths) ==
    IF "minimal_problematic_graphs" \in req \/ "I_E_minus" \in req
    THEN MinimalSetsFrom([i \in 1..Len(witness_paths) |-> EdgesOf(witness_paths[i])],
                         1, <<>>)
    ELSE <<>>

\* freq[u] += 1; freq[v] += 1 for every pair (u, v)
Freq(pairs) ==
    [n \in {p[1] : p \in pairs} \cup {p[2] : p \in pairs} |->
        Cardinality({p \in pairs : p[1] = n}) + Cardinality({p \in pairs : p[2] = n})]

\* max(freq, key=freq.get): one of the vertices of greatest frequency
MaxFreq(freq) == {n \in DOMAIN freq : \A m \in DOMAIN freq : freq[m] <= freq[n]}

\* the filter without its second condition
RemoveSources(pairs_left, v_star) == {p \in pairs_left : p[1] # v_star}

\* {(a, b) for (a, b) in pairs_left if a != v_star and b != v_star}
RemoveIncident(pairs_left, v_star) ==
    {p \in pairs_left : p[1] # v_star /\ p[2] # v_star}

RECURSIVE GreedyLoop(_, _, _)

GreedyNext(pairs_left, removed) == GreedyLoop(pairs_left, Freq(pairs_left), removed)

\* while pairs_left and freq: ...; the sets of removed vertices it can end with
GreedyLoop(pairs_left, freq, removed) ==
    IF pairs_left # {} /\ DOMAIN freq # {}
    THEN UNION {GreedyNext(RemoveIncident(pairs_left, v_star), removed \cup {v_star}) :
                   v_star \in MaxFreq(freq)}
    ELSE {removed}

\* the values I_V_minus can take
GreedyCover(req, all_problem_pairs) ==
    IF "I_V_minus" \in req
    THEN {Cardinality(removed) : removed \in GreedyNext(all_problem_pairs, {})}
    ELSE {0}

SlowSummary(req, summary, all_problem_pairs, witness_paths, minimal_paths, minimal_sets, i_v_minus) ==
    PutIf(req, "I_V_minus",
     PutIf(req, "I_E_plus",
      PutIf(req, "I_E_minus",
       PutIf(req, "minimal_problematic_graphs",
        PutIf(req, "minimal_problematic_paths",
         PutIf(req, "problematic_vertices",
          PutIf(req, "problematic_labels",
           PutIf(req, "problematic_edges", summary,
                 "problematic_edges", Cardinality(ProbEdges(witness_paths))),
           "problematic_labels", Cardinality(ProbLabels(witness_paths))),
          "problematic_vertices", Cardinality(ProbVertices(witness_paths))),
         "minimal_problematic_paths", Len(minimal_paths)),
        "minimal_problemmatic_graphs", Len(minimal_sets)),
       "I_E_minus", Len(minimal_sets)),
      "I_E_plus", Cardinality(all_problem_pairs)),
     "I_V_minus", i_v_minus)

SlowResult(req, acc, summary, all_problem_pairs, witness_paths, minimal_paths, minimal_sets) ==
    {MeasuresResult(SlowSummary(req, summary, all_problem_pairs, witness_paths,
                                minimal_paths, minimal_sets, i_v_minus),
                    acc.per_constraint, all_problem_pairs, minimal_sets,
                    minimal_paths, witness_paths) :
        i_v_minus \in GreedyCover(req, all_problem_pairs)}

SlowWitnessed(req, acc, summary, all_problem_pairs, witness_paths) ==
    SlowResult(req, acc, summary, all_problem_pairs, witness_paths,
               MinimalPaths(req, witness_paths), MinimalSets(req, witness_paths))

\* if need_paths: ... else witness_paths stays empty
CollectWitnesses(g, req, all_lhs, all_problem_pairs) ==
    IF req \cap PATH_MEASURES # {}
    THEN WitnessPaths(g, all_lhs, Sorted(all_problem_pairs), 1, <<>>)
    ELSE {<<>>}

SlowPairs(g, req, acc, summary, all_problem_pairs) ==
    UNION {SlowWitnessed(req, acc, summary, all_problem_pairs, witness_paths) :
              witness_paths \in CollectWitnesses(g, req, acc.all_lhs, all_problem_pairs)}

\* all_problem_pairs = all_pairs_LHS - all_pairs_RHS
SlowPath(g, req, acc, summary) ==
    SlowPairs(g, req, acc, summary, AllPairs(g, acc.all_lhs) \ AllPairs(g, acc.all_rhs))

AfterLoop(g, req, acc, summary) ==
    IF req \subseteq BASE_MEASURES THEN {FastExit(summary, acc)}
    ELSE SlowPath(g, req, acc, summary)

MeasuresOf(g, req, acc) ==
    IF "raised" \in DOMAIN acc THEN {acc}
    ELSE AfterLoop(g, req, acc, BaseSummary(req, acc))

MeasuresFor(g, constraints, req) ==
    UNION {MeasuresOf(g, req, acc) : acc \in ConstraintLoop(g, constraints, req, 1, LoopStart)}

ComputeMeasures(g, constraints, requested_measures) ==
    MeasuresFor(g, constraints, RequestedSet(requested_measures))

---------------------------------------------------------------------------
(* The constraint strings requests are made with *)

\* C=a included in b
RpcLabel == <<"C", "=", "a", SubCh, "b">>

\* C1: a.a <= a|b;
RpcColon == <<"C", "1", ":", " ", "a", ".", "a", " ", "<", "=", " ", "a", "|", "b", ";">>

\* C=a|b included in b.a
RpcAlternatives == <<"C", "=", "a", "|", "b", SubCh, "b", ".", "a">>

\* C=a.(a|b) included in b
RpcGroup == <<"C", "=", "a", ".", "(", "a", BarCh, "b", ")", SubCh, "b">>

\* C=a* included in b
RpcStar == <<"C", "=", "a", "*", SubCh, "b">>

\* C=a|a.a included in b
RpcOneTwo == <<"C", "=", "a", "|", "a", ".", "a", SubCh, "b">>

\* C=a.a|a.a.a included in b
RpcTwoThree == <<"C", "=", "a", ".", "a", "|", "a", ".", "a", ".", "a", SubCh, "b">>

\* C=a included in (a|b)*
RpcStarRhs == <<"C", "=", "a", SubCh, "(", "a", "|", "b", ")", "*">>

\* Cx = a b c
RpcNoInclusion == <<"C", "x", " ", "=", " ", "a", " ", "b", " ", "c">>

\* C=a. included in b
RpcDanglingDot == <<"C", "=", "a", ".", SubCh, "b">>

\* C=a.a|a.a.b included in b.b
RpcCycle == <<"C", "=", "a", ".", "a", "|", "a", ".", "a", ".", "b", SubCh, "b", ".", "b">>

Constraints ==
    {RpcLabel, RpcColon, RpcAlternatives, RpcGroup,
     RpcStar, RpcOneTwo, RpcTwoThree, RpcStarRhs,
     RpcNoInclusion, RpcDanglingDot, RpcCycle}

---------------------------------------------------------------------------
(* Direct calls of the probe *)

A == Atom(FALSE, "a")
B == Atom(FALSE, "b")
Ainv == Atom(TRUE, "a")
Binv == Atom(TRUE, "b")

ProbeSeqs ==
    {<<>>, <<A>>, <<A, A>>, <<A, B>>, <<A, A, A>>, <<A, B, A>>,
     <<Binv>>, <<A, Binv>>, <<Ainv, B>>, <<A, Ainv, B>>}

NoCall == [op |-> "none"]
NoResult == [returned |-> "nothing"]

CallPairsForSequence ==
    /\ call = NoCall
    /\ \E seq \in ProbeSeqs :
          /\ call' = [op |-> "pairs_for_sequence", seq |-> seq]
          /\ res' = [pairs |-> PairsForSequence(graph, seq)]
    /\ UNCHANGED graph

CallCheckInclusion ==
    /\ call = NoCall
    /\ \E c \in Constraints :
          /\ call' = [op |-> "check_inclusion", constraint |-> c]
          /\ res' = CheckInclusion(graph, c)
    /\ UNCHANGED graph

Return ==
    /\ call # NoCall
    /\ call' = NoCall
    /\ res' = NoResult
    /\ UNCHANGED graph

InitIncl ==
    /\ graph \in Graphs
    /\ call = NoCall
    /\ res = NoResult

NextIncl ==
    \/ CallPairsForSequence
    \/ CallCheckInclusion
    \/ Return

SpecIncl == InitIncl /\ [][NextIncl]_vars

---------------------------------------------------------------------------
(* Calls of compute_measures *)

ConstraintLists ==
    {<<>>, <<RpcStar>>, <<RpcAlternatives>>, <<RpcOneTwo>>,
     <<RpcTwoThree>>, <<RpcCycle>>, <<RpcLabel, RpcColon>>,
     <<RpcLabel, RpcNoInclusion>>}

\* requested_measures: None, or the list of names given
RequestedOptions ==
    {{},
     {{}},
     {BASE_MEASURES},
     {{"problematic_pairs", "I_E_plus"}},
     {{"I_E_minus"}},
     {{"minimal_problematic_paths", "mu_violated_constraints"}},
     {{"I_V_minus", "problematic_edges", "problematic_labels", "problematic_vertices"}}}

CallComputeMeasures ==
    /\ call = NoCall
    /\ \E constraints \in ConstraintLists, requested_measures \in RequestedOptions :
          /\ call' = [op |-> "compute_measures", constraints |-> constraints,
                      requested_measures |-> requested_measures]
          /\ res' \in ComputeMeasures(graph, constraints, requested_measures)
    /\ UNCHANGED graph

InitMeasures ==
    /\ graph \in SmallGraphs
    /\ call = NoCall
    /\ res = NoResult

NextMeasures ==
    \/ CallComputeMeasures
    \/ Return

SpecMeasures == InitMeasures /\ [][NextMeasures]_vars

---------------------------------------------------------------------------
(* The greedy loop of I_V_minus, one iteration at a time, from the locals    *)
(* it starts with for a set of problematic pairs                             *)

CoverNodes == 3

NoGraph == [nodes |-> 1..NumNodes, rels |-> {}]

\* freq = {...}; pairs_left = set(all_problem_pairs); removed = set()
InitCover ==
    /\ graph = NoGraph
    /\ \E all_problem_pairs \in SUBSET ((1..CoverNodes) \X (1..CoverNodes)) :
          /\ call = [op |-> "I_V_minus", all_problem_pairs |-> all_problem_pairs]
          /\ res = [pc |-> "while", freq |-> Freq(all_problem_pairs),
                    pairs_left |-> all_problem_pairs, removed |-> {}, I_V_minus |-> 0]

\* one pass of the body of: while pairs_left and freq
GreedyStep ==
    /\ res.pc = "while"
    /\ res.pairs_left # {} /\ DOMAIN res.freq # {}
    /\ \E v_star \in MaxFreq(res.freq) :
          res' = [pc |-> "while",
                  freq |-> Freq(RemoveIncident(res.pairs_left, v_star)),
                  pairs_left |-> RemoveIncident(res.pairs_left, v_star),
                  removed |-> res.removed \cup {v_star},
                  I_V_minus |-> 0]
    /\ UNCHANGED <<graph, call>>

\* the loop is left: summary["I_V_minus"] = len(removed)
GreedyExit ==
    /\ res.pc = "while"
    /\ ~(res.pairs_left # {} /\ DOMAIN res.freq # {})
    /\ res' = [res EXCEPT !.pc = "done", !.I_V_minus = Cardinality(res.removed)]
    /\ UNCHANGED <<graph, call>>

NextCover ==
    \/ GreedyStep
    \/ GreedyExit

\* the interpreter goes on running the loop
SpecCover == InitCover /\ [][NextCover]_vars /\ WF_vars(NextCover)

---------------------------------------------------------------------------
(* Calls of parse_rpq on a starred disjunction *)

MaxAlts == 3
MaxSeqLen == 2

LabelSeqs == UNION {[1..n -> Labels] : n \in 1..MaxSeqLen}

\* the argument disjunctions: lists of label sequences
Disjunctions == UNION {[1..n -> LabelSeqs] : n \in 1..MaxAlts}

\* the text a.b of a sequence and a.b|c of a disjunction
RECURSIVE Joined(_, _)
Joined(texts, sep) ==
    IF Len(texts) = 1 THEN texts[1]
    ELSE texts[1] \o <<sep>> \o Joined(Tail(texts), sep)

SeqText(labels) == Joined([i \in 1..Len(labels) |-> <<labels[i]>>], ".")

\* the text of D*: a label alone needs no parentheses
StarText(D) ==
    IF Len(D) = 1 /\ Len(D[1]) = 1 THEN <<D[1][1], "*">>
    ELSE <<"(">> \o Joined([i \in 1..Len(D) |-> SeqText(D[i])], "|") \o <<")", "*">>

CallParseStar ==
    /\ call = NoCall
    /\ \E D \in Disjunctions :
          /\ call' = [op |-> "parse_rpq", expr |-> StarText(D), D |-> D]
          /\ res' = ParseRpq(StarText(D))
    /\ UNCHANGED graph

InitStar ==
    /\ graph = NoGraph
    /\ call = NoCall
    /\ res = NoResult

NextStar ==
    \/ CallParseStar
    \/ Return

SpecStar == InitStar /\ [][NextStar]_vars

---------------------------------------------------------------------------
(* Calls of parse_rpq on two operands X and Y put together *)

MaxOperandAlts == 2

OperandSeqs == {<<"a">>, <<"b">>, <<"a", "b">>}

\* the operands: disjunctions of label sequences
Operands == UNION {[1..n -> OperandSeqs] : n \in 1..MaxOperandAlts}

DisjunctionText(D) == Joined([i \in 1..Len(D) |-> SeqText(D[i])], "|")

\* an operand as a factor: a disjunction needs parentheses
OperandText(D) ==
    IF Len(D) = 1 THEN SeqText(D[1]) ELSE <<"(">> \o DisjunctionText(D) \o <<")">>

Forms == {"dot", "adjacent", "nested", "starred", "bare"}

\* the expression written for X and Y in each form
ConcatText(form, X, Y) ==
    CASE form = "dot" -> OperandText(X) \o <<".">> \o OperandText(Y)
      [] form = "adjacent" -> OperandText(X) \o <<" ">> \o OperandText(Y)
      [] form = "nested" ->
             <<"(", "(">> \o DisjunctionText(X) \o <<")", ")", ".", "(">>
                 \o OperandText(Y) \o <<")">>
      [] form = "starred" ->
             <<"(">> \o DisjunctionText(X) \o <<")", "*", ".">> \o OperandText(Y)
      [] form = "bare" -> DisjunctionText(X) \o <<".">> \o DisjunctionText(Y)

CallParseConcat ==
    /\ call = NoCall
    /\ \E form \in Forms, X \in Operands, Y \in Operands :
          /\ call' = [op |-> "parse_rpq", expr |-> ConcatText(form, X, Y),
                      form |-> form, X |-> X, Y |-> Y]
          /\ res' = ParseRpq(ConcatText(form, X, Y))
    /\ UNCHANGED graph

InitConcat ==
    /\ graph = NoGraph
    /\ call = NoCall
    /\ res = NoResult

NextConcat ==
    \/ CallParseConcat
    \/ Return

SpecConcat == InitConcat /\ [][NextConcat]_vars

---------------------------------------------------------------------------
(* The first two steps of check_inclusion and of the loop of                 *)
(* compute_measures: the textual pre-pass, then parse_rpc, on constraints    *)
(* with a group p.(x|y) in some context                                      *)

Prefixes == {<<"a">>, <<"b">>, <<"a", "b">>}

Contexts == {"alone", "followed", "after_star", "after_group", "after_adjacent", "in_alternation", "starred_group"}

\* the text of the group p.(x|y)
GroupOf(p, x, y) == SeqText(p) \o <<".", "(", x, "|", y, ")">>

\* the RPQ that holds the group
InContext(ctx, group) ==
    CASE ctx = "alone" -> group
      [] ctx = "followed" -> group \o <<".", "c">>
      [] ctx = "after_star" -> <<"c", "*", ".">> \o group
      [] ctx = "after_group" -> <<"(", "c", "|", "d", ")", ".">> \o group
      [] ctx = "after_adjacent" -> <<"c", " ">> \o group
      [] ctx = "in_alternation" -> <<"c", "|">> \o group \o <<"|", "d">>
      [] ctx = "starred_group" -> group \o <<"*">>

\* the constraint with the RPQ on the given side and the label d on the other
GroupConstraint(side, rpq) ==
    IF side = "lhs" THEN <<"C", "=">> \o rpq \o <<SubCh, "d">>
    ELSE <<"C", "=", "d", SubCh>> \o rpq

GroupConstraints ==
    {GroupConstraint(side, InContext(ctx, GroupOf(p, x, y))) :
        side \in {"lhs", "rhs"}, ctx \in Contexts, p \in Prefixes, x \in Labels, y \in Labels}

\* expanded = _expand_simple_parentheses(constraint_str)
\* name, lhs, rhs = parse_rpc(expanded)
CallExpandAndParse ==
    /\ call = NoCall
    /\ \E constraint_str \in GroupConstraints :
          /\ call' = [op |-> "expand_and_parse", constraint_str |-> constraint_str]
          /\ res' = ParseRpc(ExpandSimpleParentheses(constraint_str))
    /\ UNCHANGED graph

InitExpand ==
    /\ graph = NoGraph
    /\ call = NoCall
    /\ res = NoResult

NextExpand ==
    \/ CallExpandAndParse
    \/ Return

SpecExpand == InitExpand /\ [][NextExpand]_vars

---------------------------------------------------------------------------
(* check_inclusion with the list of the pairs_for_sequence evaluations it    *)
(* makes, on constraints with and without a defect                           *)

\* pairs_for_alts(lhs), then pairs_for_alts(rhs): one evaluation of
\* pairs_for_sequence for every element of the lists, in their order
ProbesOfParsed(rpc) ==
    IF ~rpc.ok THEN <<>>
    ELSE IF ValidateSymbols(rpc.lhs, rpc.rhs) # <<>> THEN <<>>
    ELSE rpc.lhs \o rpc.rhs

\* the sequences check_inclusion hands to pairs_for_sequence
InclusionProbes(constraint_str) ==
    ProbesOfParsed(ParseRpc(ExpandSimpleParentheses(constraint_str)))

\* the texts: empty, a <= b, =a<=b, Cx = a b c, C=a<=b<=a, C=<=b, C=a<= ...
DefectPool ==
    {
     [defect |-> "empty", text |-> <<>>],
     [defect |-> "empty", text |-> <<" ", " ">>],
     [defect |-> "no_separator", text |-> <<"a", SubCh, "b">>],
     [defect |-> "no_separator", text |-> <<"a", " ", "<", "=", " ", "b">>],
     [defect |-> "no_name", text |-> <<"=", "a", SubCh, "b">>],
     [defect |-> "no_name", text |-> <<" ", ":", " ", "a", "<", "=", "b">>],
     [defect |-> "no_inclusion", text |-> <<"C", "x", " ", "=", " ", "a", " ", "b", " ", "c">>],
     [defect |-> "no_inclusion", text |-> <<"C", "=", "a">>],
     [defect |-> "two_inclusions", text |-> <<"C", "=", "a", SubCh, "b", SubCh, "a">>],
     [defect |-> "two_inclusions", text |-> <<"C", ":", " ", "a", "<", "=", "b", SubCh, "a">>],
     [defect |-> "two_inclusions", text |-> <<"C", "=", "a", "<", "=", "b", "<", "=", "a", ";">>],
     [defect |-> "no_lhs", text |-> <<"C", "=", SubCh, "b">>],
     [defect |-> "no_lhs", text |-> <<"C", ":", " ", "<", "=", "b">>],
     [defect |-> "no_rhs", text |-> <<"C", "=", "a", SubCh>>],
     [defect |-> "no_rhs", text |-> <<"C", "=", "a", "<", "=", " ", ";">>],
     [defect |-> "none", text |-> <<"C", "=", "a", SubCh, "b">>],
     [defect |-> "none", text |-> <<"C", ":", " ", "a", ".", "a", " ", "<", "=", " ", "a", "|", "b", ";">>],
     [defect |-> "none", text |-> <<"C", "=", "a", "|", "a", SubCh, "a">>]
    }

CallCheckInclusionProbed ==
    /\ call = NoCall
    /\ \E c \in DefectPool :
          /\ call' = [op |-> "check_inclusion", constraint_str |-> c.text,
                      defect |-> c.defect]
          /\ res' = [report |-> CheckInclusion(graph, c.text),
                     probes |-> InclusionProbes(c.text)]
    /\ UNCHANGED graph

InitProbes ==
    /\ graph \in SmallGraphs
    /\ call = NoCall
    /\ res = NoResult

NextProbes ==
    \/ CallCheckInclusionProbed
    \/ Return

SpecProbes == InitProbes /\ [][NextProbes]_vars

---------------------------------------------------------------------------
(* Calls of parse_rpq on sequences of atoms, some with the inverse marker *)

MaxMarkedLen == 3

MarkedAtoms == {Atom(inv, rel) : inv \in BOOLEAN, rel \in Labels}

MarkedSeqs == UNION {[1..n -> MarkedAtoms] : n \in 1..MaxMarkedLen}

\* r, or ^r for an inverse atom
AtomText(atom) == IF atom.inv THEN <<"^", atom.rel>> ELSE <<atom.rel>>

\* the atoms joined by '.' or by a space
MarkedText(seq, sep) == Joined([i \in 1..Len(seq) |-> AtomText(seq[i])], sep)

CallParseMarked ==
    /\ call = NoCall
    /\ \E seq \in MarkedSeqs, sep \in {".", " "} :
          /\ call' = [op |-> "parse_rpq", expr |-> MarkedText(seq, sep), seq |-> seq]
          /\ res' = ParseRpq(MarkedText(seq, sep))
    /\ UNCHANGED graph

InitInverse ==
    /\ graph = NoGraph
    /\ call = NoCall
    /\ res = NoResult

NextInverse ==
    \/ CallParseMarked
    \/ Return

SpecInverse == InitInverse /\ [][NextInverse]_vars

---------------------------------------------------------------------------
(* Calls of compute_measures on lists that hold constraints parse_rpc        *)
(* rejects, at every position                                                *)

MaxListLen == 3

\* C=a included in ^b
RpcCaret == <<"C", "=", "a", SubCh, "^", "b">>

\* rejected by parse_rpc, by the parser and by the lexer
RejectedConstraints == {RpcNoInclusion, RpcDanglingDot, RpcCaret}

MixedLists == UNION {[1..n -> {RpcLabel, RpcStar} \cup RejectedConstraints] : n \in 1..MaxListLen}

\* the graphs with at most one relationship
SparseGraphs == {g \in SmallGraphs : Cardinality(g.rels) <= 1}

CallComputeMeasuresMixed ==
    /\ call = NoCall
    /\ \E constraints \in MixedLists, requested_measures \in {{}, {BASE_MEASURES}, {{"I_E_plus"}}} :
          /\ call' = [op |-> "compute_measures", constraints |-> constraints,
                      requested_measures |-> requested_measures]
          /\ res' \in ComputeMeasures(graph, constraints, requested_measures)
    /\ UNCHANGED graph

InitMixed ==
    /\ graph \in SparseGraphs
    /\ call = NoCall
    /\ res = NoResult

NextMixed ==
    \/ CallComputeMeasuresMixed
    \/ Return

SpecMixed == InitMixed /\ [][NextMixed]_vars

---------------------------------------------------------------------------
(* database.manager: the persisted selection of the active database.  In    *)
(* the calls of this section the variable graph is the Neo4j server with    *)
(* the state directory next to it: graph.online are the names SHOW          *)
(* DATABASES reports online, graph.active_db_file is the content of         *)
(* active_db.txt, Missing when the file is not there.                       *)

DbNames == {"neo4j", "tesi", "archivio"}

Missing == "<missing>"

\* what a function of the manager leaves: the file, the name it returned,
\* and whether it raised ValueError
DbOutcome(file, db, raised) == [file |-> file, db |-> db, raised |-> raised]

\* list_databases: the names of the online databases
ListDatabases(server) == server.online

\* set_active_db: writes the name when it is available, raises otherwise
SetActiveDb(file, name, available) ==
    IF name \notin available THEN DbOutcome(file, "", TRUE)
    ELSE DbOutcome(name, name, FALSE)

\* get_current_database_or_default: a missing file and a name that is no
\* longer available are both replaced by 'neo4j'
GetCurrentDatabaseOrDefault(file, available) ==
    IF file = Missing THEN SetActiveDb(file, "neo4j", available)
    ELSE IF file \notin available THEN SetActiveDb(file, "neo4j", available)
    ELSE DbOutcome(file, file, FALSE)

RECURSIVE AfterLookups(_, _, _)

\* the lookups go on unless one raised
NextLookup(outcome, available, n) ==
    IF outcome.raised THEN outcome ELSE AfterLookups(outcome.file, available, n - 1)

\* n calls of get_current_database_or_default, one after the other
AfterLookups(file, available, n) ==
    IF n = 0 THEN DbOutcome(file, "", FALSE)
    ELSE NextLookup(GetCurrentDatabaseOrDefault(file, available), available, n)

\* check_inclusion: every call of pairs_for_sequence looks the database up
InclusionLookups(constraint_str) == Len(InclusionProbes(constraint_str))

RECURSIVE FastLookupsFrom(_, _)

\* the loop of compute_measures with the base measures requested: every
\* accepted constraint is handed to fast_violation, which looks the
\* database up; a rejected constraint ends the loop
FastLookupsParsed(constraints, i, rpc) ==
    IF ~rpc.ok THEN 0
    ELSE IF ValidateSymbols(rpc.lhs, rpc.rhs) # <<>> THEN FastLookupsFrom(constraints, i + 1)
    ELSE 1 + FastLookupsFrom(constraints, i + 1)

FastLookupsFrom(constraints, i) ==
    IF i > Len(constraints) THEN 0
    ELSE FastLookupsParsed(constraints, i, ParseRpc(ExpandSimpleParentheses(constraints[i])))

FastLookups(constraints) == FastLookupsFrom(constraints, 1)

DatabaseMissing == [raised |-> "ValueError", msg |-> "Database non presente"]

Server(online, file) ==
    [nodes |-> 1..NumNodes, rels |-> {}, online |-> online, active_db_file |-> file]

\* the ValueError of set_active_db, or the results of the call
Outcomes(outcome, results) == IF outcome.raised THEN {DatabaseMissing} ELSE results

CallCheckInclusionOnDb ==
    \E constraint_str \in {RpcLabel, RpcAlternatives, RpcNoInclusion} :
        /\ call' = [op |-> "check_inclusion", constraint_str |-> constraint_str,
                    file_before |-> graph.active_db_file]
        /\ graph' = [graph EXCEPT !.active_db_file =
                        AfterLookups(graph.active_db_file, ListDatabases(graph),
                                     InclusionLookups(constraint_str)).file]
        /\ res' \in Outcomes(AfterLookups(graph.active_db_file, ListDatabases(graph),
                                          InclusionLookups(constraint_str)),
                             {CheckInclusion(graph, constraint_str)})

CallComputeMeasuresOnDb ==
    \E constraints \in {<<>>, <<RpcLabel>>, <<RpcLabel, RpcColon>>, <<RpcNoInclusion>>} :
        /\ call' = [op |-> "compute_measures", constraints |-> constraints,
                    file_before |-> graph.active_db_file]
        /\ graph' = [graph EXCEPT !.active_db_file =
                        AfterLookups(graph.active_db_file, ListDatabases(graph),
                                     FastLookups(constraints)).file]
        /\ res' \in Outcomes(AfterLookups(graph.active_db_file, ListDatabases(graph),
                                          FastLookups(constraints)),
                             ComputeMeasures(graph, constraints, {BASE_MEASURES}))

\* POST /select/{db_name}
SelectInstance ==
    \E db_name \in DbNames :
        /\ call' = [op |-> "select_instance", db_name |-> db_name,
                    file_before |-> graph.active_db_file]
        /\ graph' = [graph EXCEPT !.active_db_file =
                        SetActiveDb(graph.active_db_file, db_name, ListDatabases(graph)).file]
        /\ res' = IF db_name \in ListDatabases(graph) THEN [selected |-> db_name]
                  ELSE DatabaseMissing

\* a database is started, stopped, created or dropped on the server
DatabasesChange ==
    \E online \in SUBSET DbNames :
        /\ online # graph.online
        /\ call' = [op |-> "none", file_before |-> graph.active_db_file]
        /\ graph' = [graph EXCEPT !.online = online]
        /\ res' = NoResult

InitActiveDb ==
    /\ graph \in {Server(online, file) : online \in SUBSET DbNames, file \in DbNames \cup {Missing}}
    /\ call = NoCall
    /\ res = NoResult

NextActiveDb ==
    \/ CallCheckInclusionOnDb
    \/ CallComputeMeasuresOnDb
    \/ SelectInstance
    \/ DatabasesChange

SpecActiveDb == InitActiveDb /\ [][NextActiveDb]_vars

---------------------------------------------------------------------------
(* The minimality test of compute_measures on a list of witness edge-sets,  *)
(* and on the list with one edge-set taken out                              *)

MaxEdges == 3
MaxWitnesses == 3

\* the edges (u, v, rel) a witness path can hold
WitnessEdges == {<<1, v, "a">> : v \in 1..MaxEdges}

\* a witness path has at least one edge
EdgeSets == (SUBSET WitnessEdges) \ {{}}

WitnessLists == UNION {[1..n -> EdgeSets] : n \in 1..MaxWitnesses}

\* the list without its k-th element
Without(W, k) == SubSeq(W, 1, k - 1) \o SubSeq(W, k + 1, Len(W))

CallMinimalSets ==
    /\ call = NoCall
    /\ \E path_sets \in WitnessLists :
          \E k \in 1..Len(path_sets) :
              /\ call' = [op |-> "minimal_sets", path_sets |-> path_sets, k |-> k]
              /\ res' = [minimal_sets |-> MinimalSetsFrom(path_sets, 1, <<>>),
                         without_k |-> MinimalSetsFrom(Without(path_sets, k), 1, <<>>)]
    /\ UNCHANGED graph

InitMinimal ==
    /\ graph = NoGraph
    /\ call = NoCall
    /\ res = NoResult

NextMinimal ==
    \/ CallMinimalSets
    \/ Return

SpecMinimal == InitMinimal /\ [][NextMinimal]_vars

---------------------------------------------------------------------------
(* Calls of compute_measures that extract witness paths, and calls of       *)
(* one_witness_path_for_sequence itself                                     *)

PathConstraintLists ==
    {<<RpcOneTwo>>, <<RpcTwoThree>>, <<RpcCycle>>, <<RpcStar>>, <<RpcLabel, RpcColon>>,
     <<RpcOneTwo, RpcAlternatives>>}

CallComputeMeasuresForPaths ==
    /\ call = NoCall
    /\ \E constraints \in PathConstraintLists,
          requested_measures \in {{}, {{"problematic_edges"}}, {{"I_E_plus"}}} :
          /\ call' = [op |-> "compute_measures", constraints |-> constraints,
                      requested_measures |-> requested_measures]
          /\ res' \in ComputeMeasures(graph, constraints, requested_measures)
    /\ UNCHANGED graph

CallOneWitnessPath ==
    /\ call = NoCall
    /\ \E seq \in ProbeSeqs, u_id \in graph.nodes, v_id \in graph.nodes :
          /\ call' = [op |-> "one_witness_path_for_sequence", seq |-> seq,
                      u_id |-> u_id, v_id |-> v_id]
          /\ res' \in {[path |-> p] : p \in OneWitnessPathForSequence(graph, seq, u_id, v_id)}
    /\ UNCHANGED graph

InitWitness ==
    /\ graph \in SmallGraphs
    /\ call = NoCall
    /\ res = NoResult

NextWitness ==
    \/ CallComputeMeasuresForPaths
    \/ CallOneWitnessPath
    \/ Return

SpecWitness == InitWitness /\ [][NextWitness]_vars

---------------------------------------------------------------------------
(* Calls of parse_rpq on a well-formed expression followed by text that     *)
(* starts with a closing parenthesis, and on the empty input                *)

\* nothing, and the texts ), ) b, ).b, )|b, ))
Remainders ==
    {<<>>, <<")">>, <<")", " ", "b">>, <<")", ".", "b">>, <<")", "|", "b">>, <<")", ")">>}

\* the well-formed expressions: a disjunction, bare and in parentheses
WellFormed == {DisjunctionText(D) : D \in Operands} \cup {OperandText(D) : D \in Operands}

\* the empty input and the input of spaces
EmptyInputs == {<<>>, <<" ">>}

CallParseWithRemainder ==
    /\ call = NoCall
    /\ \E expr \in WellFormed, rest \in Remainders :
          /\ call' = [op |-> "parse_rpq", expr |-> expr \o rest, rest |-> rest]
          /\ res' = ParseRpq(expr \o rest)
    /\ UNCHANGED graph

CallParseEmpty ==
    /\ call = NoCall
    /\ \E expr \in EmptyInputs :
          /\ call' = [op |-> "parse_rpq", expr |-> expr, rest |-> <<>>]
          /\ res' = ParseRpq(expr)
    /\ UNCHANGED graph

InitRemainder ==
    /\ graph = NoGraph
    /\ call = NoCall
    /\ res = NoResult

NextRemainder ==
    \/ CallParseWithRemainder
    \/ CallParseEmpty
    \/ Return

SpecRemainder == InitRemainder /\ [][NextRemainder]_vars

---------------------------------------------------------------------------
(* compute_measures one probe invocation at a time: res holds the locals of *)
(* the call, the position in its loops (pc, i, k, p) and the list of the    *)
(* probe invocations made so far (log)                                      *)

\* the graphs with at most two relationships
OrderGraphs == {g \in SmallGraphs : Cardinality(g.rels) <= 2}

OrderLists ==
    {<<>>, <<RpcLabel>>, <<RpcOneTwo>>, <<RpcTwoThree>>, <<RpcStar>>,
     <<RpcLabel, RpcColon>>, <<RpcAlternatives, RpcLabel>>,
     <<RpcLabel, RpcNoInclusion>>}

OrderOptions ==
    {{}, {{}}, {BASE_MEASURES}, {{"I_E_plus"}}, {{"problematic_edges"}},
     {{"mu_drastic", "problematic_labels"}}}

\* has_violation, pairs_here = fast_violation(lhs, rhs)
ViolationCheck(i) == [kind |-> "violation_check", at |-> i]

\* pairs_for_sequence(seq) for all_lhs or all_rhs
PairSetQuery(side, seq) == [kind |-> "pair_set", side |-> side, seq |-> seq]

\* one_witness_path_for_sequence(seq, u, v)
WitnessQuery(seq, pair) == [kind |-> "witness_path", seq |-> seq, pair |-> pair]

\* the locals at the start of the call
Started ==
    [pc |-> "loop", i |-> 1, k |-> 1, p |-> 1, all_lhs |-> <<>>, all_rhs |-> <<>>,
     all_pairs_LHS |-> {}, all_pairs_RHS |-> {}, pairs |-> <<>>, log |-> <<>>]

CallComputeMeasuresStepwise ==
    /\ call = NoCall
    /\ \E constraints \in OrderLists, requested_measures \in OrderOptions :
          call' = [op |-> "compute_measures", constraints |-> constraints,
                   requested_measures |-> requested_measures]
    /\ res' = Started
    /\ UNCHANGED graph

Running(pc) == call.op = "compute_measures" /\ res.pc = pc

\* the log after the fast check of constraint i, made when need_fast
AfterFastCheck(log, req, i) ==
    IF req \cap BASE_MEASURES # {} THEN Append(log, ViolationCheck(i)) ELSE log

\* one iteration of: for raw in constraints
Iterated(r, req, rpc) ==
    IF ~rpc.ok THEN [r EXCEPT !.pc = "raised"]
    ELSE IF ValidateSymbols(rpc.lhs, rpc.rhs) # <<>> THEN [r EXCEPT !.i = @ + 1]
    ELSE [r EXCEPT !.i = @ + 1,
                   !.log = AfterFastCheck(@, req, r.i),
                   !.all_lhs = @ \o rpc.lhs,
                   !.all_rhs = @ \o rpc.rhs]

LoopStep ==
    /\ Running("loop")
    /\ res.i <= Len(call.constraints)
    /\ res' = Iterated(res, RequestedSet(call.requested_measures), ParseRpc(ExpandSimpleParentheses(call.constraints[res.i])))
    /\ UNCHANGED <<graph, call>>

\* a call that takes the slow path whatever is requested
AfterLoopPcAlwaysSlow(req) == "pairs_lhs"

\* if req <= {...}: return; else the slow path starts
AfterLoopPc(req) == IF req \subseteq BASE_MEASURES THEN "done" ELSE "pairs_lhs"

LoopExit ==
    /\ Running("loop")
    /\ res.i > Len(call.constraints)
    /\ res' = [res EXCEPT !.pc = AfterLoopPc(RequestedSet(call.requested_measures)), !.k = 1]
    /\ UNCHANGED <<graph, call>>

\* for seq in all_lhs: all_pairs_LHS |= pairs_for_sequence(seq)
LhsStep ==
    /\ Running("pairs_lhs")
    /\ res.k <= Len(res.all_lhs)
    /\ res' = [res EXCEPT !.k = @ + 1,
                          !.log = Append(@, PairSetQuery("lhs", res.all_lhs[res.k])),
                          !.all_pairs_LHS = @ \cup PairsForSequence(graph, res.all_lhs[res.k])]
    /\ UNCHANGED <<graph, call>>

LhsExit ==
    /\ Running("pairs_lhs")
    /\ res.k > Len(res.all_lhs)
    /\ res' = [res EXCEPT !.pc = "pairs_rhs", !.k = 1]
    /\ UNCHANGED <<graph, call>>

\* for seq in all_rhs: all_pairs_RHS |= pairs_for_sequence(seq)
RhsStep ==
    /\ Running("pairs_rhs")
    /\ res.k <= Len(res.all_rhs)
    /\ res' = [res EXCEPT !.k = @ + 1,
                          !.log = Append(@, PairSetQuery("rhs", res.all_rhs[res.k])),
                          !.all_pairs_RHS = @ \cup PairsForSequence(graph, res.all_rhs[res.k])]
    /\ UNCHANGED <<graph, call>>

\* all_problem_pairs = all_pairs_LHS - all_pairs_RHS; if need_paths: ...
AfterPairsPc(req) == IF req \cap PATH_MEASURES # {} THEN "witness" ELSE "done"

RhsExit ==
    /\ Running("pairs_rhs")
    /\ res.k > Len(res.all_rhs)
    /\ res' = [res EXCEPT !.pc = AfterPairsPc(RequestedSet(call.requested_measures)), !.k = 1, !.p = 1,
                          !.pairs = Sorted(res.all_pairs_LHS \ res.all_pairs_RHS)]
    /\ UNCHANGED <<graph, call>>

\* if p: witness_paths.append(p); break - else the next sequence
AfterWitness(r, found) ==
    IF found # {<<>>} THEN [r EXCEPT !.p = @ + 1, !.k = 1]
    ELSE [r EXCEPT !.k = @ + 1]

\* p = one_witness_path_for_sequence(seq, u, v)
WitnessStep ==
    /\ Running("witness")
    /\ res.p <= Len(res.pairs)
    /\ res.k <= Len(res.all_lhs)
    /\ res' = [AfterWitness(res, OneWitnessPathForSequence(graph, res.all_lhs[res.k],
                                    res.pairs[res.p][1], res.pairs[res.p][2]))
                  EXCEPT !.log = Append(@, WitnessQuery(res.all_lhs[res.k], res.pairs[res.p]))]
    /\ UNCHANGED <<graph, call>>

\* no sequence gave a path for the pair
WitnessNone ==
    /\ Running("witness")
    /\ res.p <= Len(res.pairs)
    /\ res.k > Len(res.all_lhs)
    /\ res' = [res EXCEPT !.p = @ + 1, !.k = 1]
    /\ UNCHANGED <<graph, call>>

WitnessExit ==
    /\ Running("witness")
    /\ res.p > Len(res.pairs)
    /\ res' = [res EXCEPT !.pc = "done"]
    /\ UNCHANGED <<graph, call>>

\* the call returned or raised
ReturnStepwise ==
    /\ call.op = "compute_measures"
    /\ res.pc \in {"done", "raised"}
    /\ call' = NoCall
    /\ res' = NoResult
    /\ UNCHANGED graph

InitOrder ==
    /\ graph \in OrderGraphs
    /\ call = NoCall
    /\ res = NoResult

NextOrder ==
    \/ CallComputeMeasuresStepwise
    \/ LoopStep
    \/ LoopExit
    \/ LhsStep
    \/ LhsExit
    \/ RhsStep
    \/ RhsExit
    \/ WitnessStep
    \/ WitnessNone
    \/ WitnessExit
    \/ ReturnStepwise

SpecOrder == InitOrder /\ [][NextOrder]_vars /\ WF_vars(NextOrder)

---------------------------------------------------------------------------
(* check_inclusion one pairs_for_sequence call at a time, while the other   *)
(* requests of the thread pool go on.  In this section graph is the Neo4j   *)
(* server: graph.store[db] is the graph held by database db, graph.online   *)
(* and graph.active_db_file are as in the previous section.  res holds the  *)
(* locals of the call and, in res.used, the database of every query made.   *)

\* the graph with the given relationships
Holding(rels) == [NoGraph EXCEPT !.rels = rels]

\* the contents of a database
DbGraphs ==
    {Holding({<<1, "a", 2, 1>>}), Holding({<<1, "b", 2, 1>>}),
     Holding({<<1, "a", 2, 1>>, <<1, "b", 2, 1>>})}

Servers ==
    {[store |-> store, online |-> DbNames, active_db_file |-> file] :
        store \in [DbNames -> DbGraphs], file \in DbNames}

\* name, lhs, rhs = parse_rpc(expanded), then validate_symbols
InclusionStarted(rpc) ==
    IF ~rpc.ok THEN [pc |-> "raised", used |-> <<>>]
    ELSE IF ValidateSymbols(rpc.lhs, rpc.rhs) # <<>>
    THEN [pc |-> "done", used |-> <<>>,
          report |-> InclusionValidated(NoGraph, rpc, ValidateSymbols(rpc.lhs, rpc.rhs))]
    ELSE [pc |-> "lhs", used |-> <<>>, name |-> rpc.name, lhs |-> rpc.lhs, rhs |-> rpc.rhs,
          k |-> 1, lhs_pairs |-> {}, rhs_pairs |-> {}]

CallCheckInclusionStepwise ==
    /\ call = NoCall
    /\ \E constraint_str \in {RpcLabel, RpcAlternatives, RpcNoInclusion} :
          /\ call' = [op |-> "check_inclusion", constraint_str |-> constraint_str]
          /\ res' = InclusionStarted(ParseRpc(ExpandSimpleParentheses(constraint_str)))
    /\ UNCHANGED graph

Checking(pc) == call.op = "check_inclusion" /\ res.pc = pc

\* db = get_current_database_or_default()
CurrentDb == GetCurrentDatabaseOrDefault(graph.active_db_file, ListDatabases(graph))

\* out |= pairs_for_sequence(seq), for seq in lhs
LhsPairsStep ==
    /\ Checking("lhs")
    /\ res.k <= Len(res.lhs)
    /\ graph' = [graph EXCEPT !.active_db_file = CurrentDb.file]
    /\ res' = [res EXCEPT !.k = @ + 1,
                          !.used = Append(@, CurrentDb.db),
                          !.lhs_pairs = @ \cup PairsForSequence(graph.store[CurrentDb.db],
                                                                res.lhs[res.k])]
    /\ UNCHANGED call

\* lhs_pairs = pairs_for_alts(lhs) returned
LhsPairsExit ==
    /\ Checking("lhs")
    /\ res.k > Len(res.lhs)
    /\ res' = [res EXCEPT !.pc = "rhs", !.k = 1]
    /\ UNCHANGED <<graph, call>>

\* out |= pairs_for_sequence(seq), for seq in rhs
RhsPairsStep ==
    /\ Checking("rhs")
    /\ res.k <= Len(res.rhs)
    /\ graph' = [graph EXCEPT !.active_db_file = CurrentDb.file]
    /\ res' = [res EXCEPT !.k = @ + 1,
                          !.used = Append(@, CurrentDb.db),
                          !.rhs_pairs = @ \cup PairsForSequence(graph.store[CurrentDb.db],
                                                                res.rhs[res.k])]
    /\ UNCHANGED call

\* rhs_pairs = pairs_for_alts(rhs) returned: the report is built
RhsPairsExit ==
    /\ Checking("rhs")
    /\ res.k > Len(res.rhs)
    /\ res' = [pc |-> "done", used |-> res.used,
               report |-> InclusionOfPairs(res.name, res.lhs_pairs, res.rhs_pairs)]
    /\ UNCHANGED <<graph, call>>

\* POST /select/{db_name}, served by another thread
SelectInstanceMeanwhile ==
    /\ \E db_name \in ListDatabases(graph) \ {graph.active_db_file} :
          graph' = [graph EXCEPT !.active_db_file =
                       SetActiveDb(graph.active_db_file, db_name, ListDatabases(graph)).file]
    /\ UNCHANGED <<call, res>>

\* the call returned or raised
ReturnInclusion ==
    /\ call.op = "check_inclusion"
    /\ res.pc \in {"done", "raised"}
    /\ call' = NoCall
    /\ res' = NoResult
    /\ UNCHANGED graph

InitSwitch ==
    /\ graph \in Servers
    /\ call = NoCall
    /\ res = NoResult

NextSwitch ==
    \/ CallCheckInclusionStepwise
    \/ LhsPairsStep
    \/ LhsPairsExit
    \/ RhsPairsStep
    \/ RhsPairsExit
    \/ SelectInstanceMeanwhile
    \/ ReturnInclusion

SpecSwitch == InitSwitch /\ [][NextSwitch]_vars

---------------------------------------------------------------------------
(* check_inclusion and compute_measures on constraints whose sides are all  *)
(* the short texts over the characters the tokenizer tells apart            *)

MaxTextLen == 3

TextChars == {"a", "_", "1", " ", ".", "|", "*", "(", ")"}

Texts == UNION {[1..n -> TextChars] : n \in 0..MaxTextLen}

\* the text as the left side and as the right side of a constraint
TextConstraints ==
    {<<"C", "=">> \o text \o <<SubCh, "b">> : text \in Texts}
        \cup {<<"C", "=", "b", SubCh>> \o text : text \in Texts}

TextGraphs == {NoGraph, [NoGraph EXCEPT !.rels = {<<1, "a", 2, 1>>}]}

CallCheckInclusionOnText ==
    /\ call = NoCall
    /\ \E constraint_str \in TextConstraints :
          /\ call' = [op |-> "check_inclusion", constraint_str |-> constraint_str]
          /\ res' = CheckInclusion(graph, constraint_str)
    /\ UNCHANGED graph

CallComputeMeasuresOnText ==
    /\ call = NoCall
    /\ \E constraint_str \in TextConstraints, requested_measures \in {{}, {BASE_MEASURES}} :
          /\ call' = [op |-> "compute_measures", constraint_str |-> constraint_str,
                      requested_measures |-> requested_measures]
          /\ res' \in ComputeMeasures(graph, <<constraint_str>>, requested_measures)
    /\ UNCHANGED graph

InitSymbols ==
    /\ graph \in TextGraphs
    /\ call = NoCall
    /\ res = NoResult

NextSymbols ==
    \/ CallCheckInclusionOnText
    \/ CallComputeMeasuresOnText
    \/ Return

SpecSymbols == InitSymbols /\ [][NextSymbols]_vars

---------------------------------------------------------------------------
(* Reference semantics of a sequence: the pairs joined by a path *)

\* one hop from x to y: along the arrow, or against it for an inverse atom
\* (two nodes are related when the first copy of the relationship is there)
Hop(g, atom, x, y) ==
    IF atom.inv
    THEN <<y, atom.rel, x, 1>> \in g.rels
    ELSE <<x, atom.rel, y, 1>> \in g.rels

\* {(n0, nk) : n(i-1) -seq[i]-> n(i) for every i}
PathPairs(g, seq) ==
    LET k == Len(seq)
        walks == {w \in [1..(k + 1) -> g.nodes] :
                     \A i \in 1..k : Hop(g, seq[i], w[i], w[i + 1])}
    IN  {<<w[1], w[k + 1]>> : w \in walks}

IsForward(seq) == \A i \in 1..Len(seq) : ~seq[i].inv

Min(a, b) == IF a < b THEN a ELSE b

---------------------------------------------------------------------------
(* Claims about check_inclusion and pairs_for_sequence (SpecIncl) *)

InclusionReturned ==
    /\ call.op = "check_inclusion"
    /\ "violations_count" \in DOMAIN res

\* C1: for every graph and accepted RPC, violations_count = |L \ R| with L, R
\* the unions of pairs_for_sequence over the LHS and RHS sequences; ok iff the
\* count is 0; violations is the ascending list of the first min(200, count)
\* elements of L \ R, and the count itself is not truncated.
C1_InclusionResult ==
    InclusionReturned =>
        LET rpc == ParseRpc(ExpandSimpleParentheses(call.constraint))
            L == UNION {PairsForSequence(graph, rpc.lhs[i]) : i \in 1..Len(rpc.lhs)}
            R == UNION {PairsForSequence(graph, rpc.rhs[i]) : i \in 1..Len(rpc.rhs)}
            V == L \ R
            lst == res.violations
            listed == {lst[i] : i \in 1..Len(lst)}
        IN  /\ res.violations_count = Cardinality(V)
            /\ res.ok <=> (res.violations_count = 0)
            /\ res.lhs_pairs = Cardinality(L)
            /\ res.rhs_pairs = Cardinality(R)
            /\ Len(lst) = Min(VIOLATIONS_CAP, res.violations_count)
            /\ listed \subseteq V
            /\ \A i \in 1..(Len(lst) - 1) : PairLess(lst[i], lst[i + 1])
            /\ \A p \in V \ listed : \A q \in listed : PairLess(q, p)

\* C1 witness: a check that found more than 200 violations and listed 200
C1_Witness ==
    /\ InclusionReturned
    /\ res.violations_count > VIOLATIONS_CAP
    /\ Len(res.violations) = VIOLATIONS_CAP
    /\ ~res.ok

\* C2: for a non-empty sequence of forward atoms pairs_for_sequence returns
\* exactly the pairs (u, v) joined by a path u = n0 -r1-> n1 ... -rk-> nk = v.
C2_ForwardJoinIsPathSemantics ==
    (call.op = "pairs_for_sequence" /\ call.seq # <<>> /\ IsForward(call.seq))
        => res.pairs = PathPairs(graph, call.seq)

\* C2 witness: a three-hop forward sequence that joins several pairs
C2_Witness ==
    /\ call.op = "pairs_for_sequence"
    /\ IsForward(call.seq)
    /\ Len(call.seq) = 3
    /\ Cardinality(res.pairs) >= 2

\* C3: pairs_for_sequence honours an inverse atom at every position: the
\* result is the set of pairs joined by a path whose hop i runs against the
\* arrow when atom i is inverse.
C3_InverseHonouredEverywhere ==
    (call.op = "pairs_for_sequence" /\ call.seq # <<>>)
        => res.pairs = PathPairs(graph, call.seq)


---------------------------------------------------------------------------
(* Claims about compute_measures (SpecMeasures) *)

MeasuresReturned ==
    /\ call.op = "compute_measures"
    /\ "summary" \in DOMAIN res

Req == RequestedSet(call.requested_measures)

OnSlowPath == MeasuresReturned /\ ~(Req \subseteq BASE_MEASURES)

\* the pairs that violate constraint i under the full evaluation
FullViolations(i) ==
    LET rpc == ParseRpc(ExpandSimpleParentheses(call.constraints[i]))
    IN  PairsForAlts(graph, rpc.lhs) \ PairsForAlts(graph, rpc.rhs)

ViolatedInFull == {i \in 1..Len(call.constraints) : FullViolations(i) # {}}

\* C4: when requested, mu_violated_constraints is the number of constraints
\* whose full evaluation (L \ R, the verdict of check_inclusion) is
\* non-empty and mu_drastic is 1 iff that number is positive; the existence
\* check of the fast path agrees with the full evaluation on every constraint.
C4_FastAgreesWithFullEvaluation ==
    MeasuresReturned =>
        /\ "mu_violated_constraints" \in Req
              => res.summary["mu_violated_constraints"] = Cardinality(ViolatedInFull)
        /\ "mu_drastic" \in Req
              => res.summary["mu_drastic"] = (IF ViolatedInFull # {} THEN 1 ELSE 0)
        /\ Req \cap BASE_MEASURES # {}
              => \A i \in 1..Len(call.constraints) :
                     res.details.per_constraint[i].ok <=> (FullViolations(i) = {})

\* C5: on the slow path, problematic_pairs, when requested, is the exact
\* cardinality of the union over the constraints of (lhs_pairs \ rhs_pairs).
C5_ProblematicPairsExact ==
    (OnSlowPath /\ "problematic_pairs" \in Req) =>
        res.summary["problematic_pairs"] =
            Cardinality(UNION {FullViolations(i) : i \in 1..Len(call.constraints)})

\* the indices of W whose edge-set has no strict subset among the others
MinimalIndices(W) ==
    {i \in 1..Len(W) :
        ~ \E j \in 1..Len(W) :
              /\ j # i
              /\ EdgesOf(W[j]) \subseteq EdgesOf(W[i])
              /\ EdgesOf(W[j]) # EdgesOf(W[i])}

\* C6: the summary has an entry under exactly the requested names, nothing
\* else, and the entry minimal_problematic_graphs holds the I_M count.
C6_SummaryKeysAreRequested ==
    MeasuresReturned =>
        /\ DOMAIN res.summary = Req
        /\ "minimal_problematic_graphs" \in Req
              => res.summary["minimal_problematic_graphs"]
                     = Cardinality(MinimalIndices(res.witness_paths))

\* the numbers the call gives out as I_M: the length of details.MIMS and
\* the entry of the summary written for minimal_problematic_graphs
ValuesOfIM ==
    {Len(res.details.MIMS)} \cup
    {res.summary[k] : k \in DOMAIN res.summary \cap
                           {"minimal_problematic_graphs", "minimal_problemmatic_graphs"}}

\* C7: the I_M value counts exactly the indices i of the witness list W
\* whose edge-set has no strict subset among the other edge-sets (equal
\* edge-sets are both minimal), and I_E_minus, when requested, is that same
\* count whether or not minimal_problematic_graphs is requested.
C7_MinimalEdgeSets ==
    (MeasuresReturned /\ Req \cap {"minimal_problematic_graphs", "I_E_minus"} # {}) =>
        /\ \A v \in ValuesOfIM : v = Cardinality(MinimalIndices(res.witness_paths))
        /\ "I_E_minus" \in Req
              => res.summary["I_E_minus"] = Cardinality(MinimalIndices(res.witness_paths))

\* C7 witness: I_E_minus requested alone; two witnesses with the same
\* edge-set are both counted, a third one with a larger edge-set is not
C7_Witness ==
    /\ MeasuresReturned
    /\ Req = {"I_E_minus"}
    /\ res.summary["I_E_minus"] = 2
    /\ Len(res.witness_paths) = 3
    /\ \E i, j \in MinimalIndices(res.witness_paths) :
          i # j /\ EdgesOf(res.witness_paths[i]) = EdgesOf(res.witness_paths[j])

\* C8: minimal_problematic_paths counts the witness paths P for which no
\* other witness path Q has set(Q) a strict subset of set(P) and fewer steps;
\* a shorter Q with the same edge-set leaves P minimal.
C8_MinimalPathsStrictSubset ==
    (MeasuresReturned /\ "minimal_problematic_paths" \in Req) =>
        res.summary["minimal_problematic_paths"] =
            Cardinality({i \in 1..Len(res.witness_paths) :
                ~ \E j \in 1..Len(res.witness_paths) :
                      /\ j # i
                      /\ EdgesOf(res.witness_paths[j]) \subseteq EdgesOf(res.witness_paths[i])
                      /\ EdgesOf(res.witness_paths[j]) # EdgesOf(res.witness_paths[i])
                      /\ Len(res.witness_paths[j]) < Len(res.witness_paths[i])})

---------------------------------------------------------------------------
(* Claims about the greedy loop of I_V_minus (SpecCover) *)

CoverDone ==
    /\ res.pairs_left = {}
    /\ \A p \in call.all_problem_pairs : p[1] \in res.removed \/ p[2] \in res.removed
    /\ res.I_V_minus = Cardinality(res.removed)
    /\ (res.I_V_minus = 0) <=> (call.all_problem_pairs = {})
    /\ res.I_V_minus <= Cardinality(call.all_problem_pairs)

\* C9: for every set of problematic pairs, pairs (u, u) included, the greedy
\* loop ends, and it ends with no pair left and a set of removed vertices
\* that covers every pair; I_V_minus is the size of that set, is 0 iff there
\* is no pair, and is at most the number of pairs.
C9_GreedyCover ==
    /\ <>(res.pc = "done")
    /\ [](res.pc = "done" => CoverDone)

\* C9 witness: the loop ended after removing two vertices, one of them for a
\* pair (u, u)
C9_Witness ==
    /\ call.op = "I_V_minus"
    /\ res.pc = "done"
    /\ res.I_V_minus = 2
    /\ \E u \in res.removed : <<u, u>> \in call.all_problem_pairs

---------------------------------------------------------------------------
(* Claims about the bounded Kleene star (SpecStar) *)

AtomsOf(labels) == [i \in 1..Len(labels) |-> Atom(FALSE, labels[i])]

\* the concatenations of k members of D
Products(D, k) ==
    {Flatten([i \in 1..k |-> AtomsOf(D[f[i]])]) : f \in [1..k -> 1..Len(D)]}

UpToThree(D) == {<<>>} \cup Products(D, 1) \cup Products(D, 2) \cup Products(D, 3)

\* C10: parsing D* yields exactly the empty sequence and the concatenations
\* of 1, 2 or 3 members of D, and so no concatenation of 4 or more that is
\* not also one of at most 3.
C10_StarIsBoundedExpansion ==
    (call.op = "parse_rpq") =>
        /\ res.ok
        /\ {res.alts[i] : i \in 1..Len(res.alts)} = UpToThree(call.D)

\* C10 witness: the star of a disjunction of two sequences, one of them of
\* two labels, gave the 1 + 2 + 4 + 8 sequences
C10_Witness ==
    /\ call.op = "parse_rpq"
    /\ Len(call.D) = 2
    /\ \E i \in 1..2 : Len(call.D[i]) = 2
    /\ res.ok
    /\ Len(res.alts) = 15

---------------------------------------------------------------------------
(* Claims about concatenation and alternation (SpecConcat) *)

\* the sequences of a disjunction of label sequences
SeqsOf(D) == {AtomsOf(D[i]) : i \in 1..Len(D)}

\* { x + y : x in left, y in right }
Concatenations(left, right) == {x \o y : x \in left, y \in right}

AltsOf(r) == {r.alts[i] : i \in 1..Len(r.alts)}

\* C11: the sequences of X.Y, of the adjacency form X Y, and of the same
\* with more parentheses around the operands, are exactly the x + y with x a
\* sequence of X and y a sequence of Y (for a starred X: x a sequence of the
\* star); without parentheses the alternation binds weaker, so only the last
\* alternative of X is concatenated with the first of Y.
C11_ConcatDistributesOverAlt ==
    (call.op = "parse_rpq") =>
        /\ res.ok
        /\ call.form \in {"dot", "adjacent", "nested"} =>
              AltsOf(res) = Concatenations(SeqsOf(call.X), SeqsOf(call.Y))
        /\ call.form = "starred" =>
              AltsOf(res) = Concatenations(UpToThree(call.X), SeqsOf(call.Y))
        /\ call.form = "bare" =>
              AltsOf(res) =
                  {AtomsOf(call.X[i]) : i \in 1..(Len(call.X) - 1)}
                  \cup {AtomsOf(call.X[Len(call.X)]) \o AtomsOf(call.Y[1])}
                  \cup {AtomsOf(call.Y[i]) : i \in 2..Len(call.Y)}

\* C11 witness: (a|b) (a|a.b) in the adjacency form gave the four
\* sequences a.a, a.a.b, b.a, b.a.b
C11_Witness ==
    /\ call.op = "parse_rpq"
    /\ call.form = "adjacent"
    /\ call.X = <<(<<"a">>), (<<"b">>)>>
    /\ call.Y = <<(<<"a">>), (<<"a", "b">>)>>
    /\ res.ok
    /\ Cardinality(AltsOf(res)) = 4
    /\ AtomsOf(<<"b", "a", "b">>) \in AltsOf(res)

---------------------------------------------------------------------------
(* Claims about the textual pre-pass (SpecExpand) *)

SameSequences(r, q) ==
    /\ r.ok = q.ok
    /\ r.ok =>
          /\ {r.lhs[i] : i \in 1..Len(r.lhs)} = {q.lhs[i] : i \in 1..Len(q.lhs)}
          /\ {r.rhs[i] : i \in 1..Len(r.rhs)} = {q.rhs[i] : i \in 1..Len(q.rhs)}

\* C12: for a constraint holding a group p.(x|y), in whatever context,
\* parsing the text rewritten by the pre-pass gives the same LHS and RHS
\* sequence sets as parsing the constraint itself.
C12_PrePassPreservesMeaning ==
    (call.op = "expand_and_parse") =>
        SameSequences(res, ParseRpc(call.constraint_str))

---------------------------------------------------------------------------
(* Claims about rejected constraints and probe evaluations (SpecProbes) *)

Raised(r) == "raised" \in DOMAIN r

\* C13: a constraint that is empty, has neither '=' nor ':', has no name,
\* has no or more than one inclusion symbol, or has an empty LHS or RHS makes
\* check_inclusion fail with the parse error, and no sequence is evaluated
\* on the graph.
C13_DefectsAreRejectedUnprobed ==
    (call.op = "check_inclusion" /\ call.defect # "none") =>
        /\ Raised(res.report)
        /\ res.report.raised = "ValueError"
        /\ res.probes = <<>>

\* C13 witness: Cx = a b c was rejected for the missing inclusion symbol on a
\* graph with relationships, and a constraint without defect was probed
C13_Witness ==
    /\ call.op = "check_inclusion"
    /\ call.constraint_str = RpcNoInclusion
    /\ graph.rels # {}
    /\ Raised(res.report)
    /\ res.report.msg = "Il vincolo deve contenere esattamente un simbolo di inclusione"
    /\ res.probes = <<>>
    /\ InclusionProbes(RpcLabel) # <<>>

---------------------------------------------------------------------------
(* Claims about the inverse marker (SpecInverse) *)

\* C14: an RPQ written with the inverse marker, such as ^a or a.^b, is
\* accepted, and its sequence has the atom (inverse = true, label) wherever
\* the marker stands.
C14_InverseMarkerAccepted ==
    (call.op = "parse_rpq") =>
        /\ res.ok
        /\ res.alts = <<call.seq>>

---------------------------------------------------------------------------
(* Claims about the empty sequence of a Kleene star (SpecMeasures) *)

\* the sequences of a list of alternatives that have an atom
NonEmptySeqs(alts) == {alts[i] : i \in 1..Len(alts)} \ {<<>>}

\* a match of the LHS sequence that no RHS sequence of the set joins
UnmatchedBy(g, lhs, rhs_seqs) ==
    {m \in MatchPattern(g, RelsOf(lhs)) :
        ~ \E rhs \in rhs_seqs : ExistsPattern(g, RelsOf(rhs), m.n0, LastNode(m))}

\* C15: the empty sequence of a star is never evaluated on the graph and
\* so contributes no pairs: a constraint is reported violated only when a
\* non-empty LHS sequence has a pair that no non-empty RHS sequence has (the
\* empty LHS sequence creates no violation), it is reported ok only when
\* there is no such pair (the empty RHS sequence masks none), and every
\* reported pair is a pair of a non-empty LHS sequence.
C15_EmptySequenceContributesNoPairs ==
    (MeasuresReturned /\ Req \cap BASE_MEASURES # {}) =>
        \A i \in 1..Len(call.constraints) :
            LET rpc == ParseRpc(ExpandSimpleParentheses(call.constraints[i]))
                rep == res.details.per_constraint[i]
                real == \E lhs \in NonEmptySeqs(rpc.lhs) :
                            UnmatchedBy(graph, lhs, NonEmptySeqs(rpc.rhs)) # {}
            IN  "violations_count" \in DOMAIN rep =>
                    /\ rep.ok <=> ~real
                    /\ Len(call.constraints) = 1 =>
                           res.details.pairs \subseteq
                               UNION {PathPairs(graph, lhs) : lhs \in NonEmptySeqs(rpc.lhs)}

---------------------------------------------------------------------------
(* Claims about lists with a rejected constraint (SpecMixed) *)

\* the positions of the list whose constraint parse_rpc rejects
RejectedAt == {i \in 1..Len(call.constraints) : call.constraints[i] \in RejectedConstraints}

FirstRejected == CHOOSE i \in RejectedAt : \A j \in RejectedAt : i <= j

\* C16: when a constraint of the list, at whatever position, fails to lex or
\* parse, compute_measures ends with the error of the first such constraint
\* and gives no summary and no per-constraint report, whatever was evaluated
\* before; a list without such a constraint gives its summary.
C16_ParseErrorEndsTheCall ==
    (call.op = "compute_measures") =>
        IF RejectedAt # {}
        THEN /\ DOMAIN res = {"raised", "msg"}
             /\ res.raised = "ValueError"
             /\ res.msg = ParseRpc(ExpandSimpleParentheses(call.constraints[FirstRejected])).err
        ELSE /\ MeasuresReturned
             /\ Len(res.details.per_constraint) = Len(call.constraints)

\* C16 witness: a = b was evaluated and found violated on a graph with an
\* a-relationship, then the second constraint failed in the lexer
C16_Witness ==
    /\ call.op = "compute_measures"
    /\ call.constraints = <<RpcLabel, RpcCaret>>
    /\ \E r \in graph.rels : Lbl(r) = "a"
    /\ FastViolation(graph, ParseRpc(RpcLabel).lhs, ParseRpc(RpcLabel).rhs)
           = {FastResult(TRUE, {<<Src(r), Dst(r)>> : r \in graph.rels})}
    /\ DOMAIN res = {"raised", "msg"}
    /\ res.msg = "Carattere non valido nella RPQ"


\* C17: within one call of check_inclusion no sequence is evaluated twice
\* on the graph: the non-empty sequences handed to pairs_for_sequence, for
\* the LHS and for the RHS, are pairwise distinct.
C17_EachSequenceEvaluatedOnce ==
    (call.op = "check_inclusion") =>
        \A i, j \in 1..Len(res.probes) :
            (i # j /\ res.probes[i] # <<>>) => res.probes[i] # res.probes[j]

---------------------------------------------------------------------------
(* Claims about the persisted selection (SpecActiveDb) *)

\* C18: a call of check_inclusion or compute_measures leaves active_db.txt
\* with the content it had before the call, also when the file was missing
\* or named a database that is no longer online.
C18_SelectionUnchangedByCalls ==
    (call.op \in {"check_inclusion", "compute_measures"}) =>
        graph.active_db_file = call.file_before

---------------------------------------------------------------------------
(* Claims about the minimality test (SpecMinimal) *)

\* the k-th edge-set has a strict subset among the others
HasStrictSubset(W, k) ==
    \E j \in 1..Len(W) : j # k /\ W[j] \subseteq W[k] /\ W[j] # W[k]

\* the index in W of the i-th element of Without(W, k)
IndexBefore(i, k) == IF i < k THEN i ELSE i + 1

\* C19: taking out of W one edge-set that has a strict subset among the
\* others leaves the I_M count as it was, and every remaining edge-set is
\* minimal in the shorter list exactly when it was minimal in W; the list
\* of minimal sets is the same list.
C19_MinimalityIdempotent ==
    (call.op = "minimal_sets" /\ HasStrictSubset(call.path_sets, call.k)) =>
        /\ Len(res.without_k) = Len(res.minimal_sets)
        /\ res.without_k = res.minimal_sets
        /\ \A i \in 1..(Len(call.path_sets) - 1) :
               IsMinimalSet(Without(call.path_sets, call.k), i)
                   <=> IsMinimalSet(call.path_sets, IndexBefore(i, call.k))

\* C19 witness: from a chain of three edge-sets the middle one was taken
\* out; the largest one stays non-minimal because of the smallest
C19_Witness ==
    /\ call.op = "minimal_sets"
    /\ call.k = 2
    /\ Len(call.path_sets) = 3
    /\ HasStrictSubset(call.path_sets, 2)
    /\ HasStrictSubset(call.path_sets, 1)
    /\ \A j \in 1..3 : call.path_sets[1] \subseteq call.path_sets[j] => j \in {1}
    /\ call.path_sets[2] \subseteq call.path_sets[1]
    /\ res.minimal_sets = <<call.path_sets[3]>>
    /\ res.without_k = <<call.path_sets[3]>>

---------------------------------------------------------------------------
(* Claims about the samples of the fast mode (SpecMeasures) *)

InFastMode == MeasuresReturned /\ Req \subseteq BASE_MEASURES

\* C20: in fast mode problematic_pairs is the number of pairs in the union
\* of the samples of the constraints, no constraint has a sample of more
\* than 20 pairs, every sampled pair is in L \ R of a constraint under the
\* full evaluation, and so the reported number is at most the exact number
\* of problematic pairs.
C20_FastSamplesAreTrueViolations ==
    InFastMode =>
        /\ \A i \in 1..Len(call.constraints) :
               "violations_count" \in DOMAIN res.details.per_constraint[i] =>
                   res.details.per_constraint[i].violations_count <= FAST_LIMIT
        /\ res.details.pairs \subseteq
               UNION {FullViolations(i) : i \in 1..Len(call.constraints)}
        /\ "problematic_pairs" \in Req =>
               /\ res.summary["problematic_pairs"] = Cardinality(res.details.pairs)
               /\ res.summary["problematic_pairs"] <=
                      Cardinality(UNION {FullViolations(i) : i \in 1..Len(call.constraints)})

---------------------------------------------------------------------------
(* Claims about the problematic pairs of the slow path (SpecMeasures) *)

\* the union over the constraints of (lhs_pairs \ rhs_pairs)
PerConstraintViolations == UNION {FullViolations(i) : i \in 1..Len(call.constraints)}

\* C21: on the slow path the problematic pairs given in details.pairs are
\* the union over the constraints of (lhs_pairs \ rhs_pairs), each constraint
\* with its own RHS: a pair that violates one constraint stays problematic
\* when it is in the RHS pairs of another; I_E_plus is the size of that set.
C21_ProblemPairsPerConstraint ==
    OnSlowPath =>
        /\ res.details.pairs = PerConstraintViolations
        /\ "I_E_plus" \in Req
              => res.summary["I_E_plus"] = Cardinality(PerConstraintViolations)

---------------------------------------------------------------------------
(* Claims about witness extraction (SpecWitness) *)

\* p has one triple per atom of seq, with the labels of seq, each triple a
\* relationship of the graph, chained, from u to v
ValidWitness(g, p, seq, u, v) ==
    /\ Len(p) = Len(seq)
    /\ Len(p) >= 1
    /\ p[1][1] = u
    /\ p[Len(p)][2] = v
    /\ \A i \in 1..Len(p) :
          /\ p[i][3] = seq[i].rel
          /\ \E r \in g.rels : Src(r) = p[i][1] /\ Dst(r) = p[i][2] /\ Lbl(r) = p[i][3]
    /\ \A i \in 1..(Len(p) - 1) : p[i][2] = p[i + 1][1]

\* the pair a path joins
EndsOf(p) == <<p[1][1], p[Len(p)][2]>>

\* the LHS sequences of the constraints of the call, in their order
AllLhsOfCall ==
    Flatten([i \in 1..Len(call.constraints) |->
                ParseRpc(ExpandSimpleParentheses(call.constraints[i])).lhs])

\* the sequence at position k gives no witness for the pair
NoWitnessAt(all_lhs, k, pr) ==
    OneWitnessPathForSequence(graph, all_lhs[k], pr[1], pr[2]) = {<<>>}

\* C22: the witness list has at most one path per problematic pair; the
\* path kept for a pair is a path of the first LHS sequence, in the order
\* of appearance, that gives one: it starts at u, ends at v and has one
\* chained triple per atom with the label of the atom; a pair has a path
\* when some sequence gives one.  A sequence with an inverse atom gives the
\* empty path, not an error.
C22_OneWitnessPerPair ==
    /\ (MeasuresReturned /\ Req \cap PATH_MEASURES # {}) =>
          LET W == res.witness_paths
              all_lhs == AllLhsOfCall
          IN  /\ \A i, j \in 1..Len(W) : i # j => EndsOf(W[i]) # EndsOf(W[j])
              /\ \A j \in 1..Len(W) :
                    /\ EndsOf(W[j]) \in res.details.pairs
                    /\ \E k \in 1..Len(all_lhs) :
                          /\ ValidWitness(graph, W[j], all_lhs[k],
                                          EndsOf(W[j])[1], EndsOf(W[j])[2])
                          /\ \A n \in 1..(k - 1) : NoWitnessAt(all_lhs, n, EndsOf(W[j]))
              /\ \A pr \in res.details.pairs :
                    (\E k \in 1..Len(all_lhs) : ~NoWitnessAt(all_lhs, k, pr))
                        => \E j \in 1..Len(W) : EndsOf(W[j]) = pr
    /\ (call.op = "one_witness_path_for_sequence") =>
          IF \E i \in 1..Len(call.seq) : call.seq[i].inv
          THEN res.path = <<>>
          ELSE res.path = <<>>
                  \/ ValidWitness(graph, res.path, call.seq, call.u_id, call.v_id)

\* C22 witness: (1,1) is problematic for a|a.a, joined by a and by a.a on
\* two a-loops; the path kept is the one of the first sequence, a
C22_Witness ==
    /\ MeasuresReturned
    /\ call.constraints = <<RpcOneTwo>>
    /\ Req \cap PATH_MEASURES # {}
    /\ <<1, 1>> \in res.details.pairs
    /\ ~NoWitnessAt(AllLhsOfCall, 1, <<1, 1>>)
    /\ ~NoWitnessAt(AllLhsOfCall, 2, <<1, 1>>)
    /\ \E j \in 1..Len(res.witness_paths) : res.witness_paths[j] = <<(<<1, 1, "a">>)>>

---------------------------------------------------------------------------
(* Claims about the end of the input (SpecRemainder) *)

\* C23: parse_rpq accepts an input only when the whole of it derives from
\* the grammar: an expression followed by an unmatched closing parenthesis,
\* with or without more text after it, is rejected, and so is the empty
\* input; the expression alone is accepted.
C23_WholeInputIsParsed ==
    (call.op = "parse_rpq") =>
        (res.ok <=> (call.rest = <<>> /\ call.expr \notin EmptyInputs))


\* the positions of the log that hold a probe invocation of the given kind
ProbesOfKind(kind) == {n \in 1..Len(res.log) : res.log[n].kind = kind}

PairSetsOfSide(side) == {n \in ProbesOfKind("pair_set") : res.log[n].side = side}

\* every position of the first set lies before every position of the second
AllBefore(first, second) == \A m \in first, n \in second : m < n

\* C24: within one compute_measures call the per-constraint violation checks
\* run in the order of the constraint list and are all made before any
\* pair-set query; the pair-set queries of the LHS sequences precede those of
\* the RHS sequences and every pair-set query precedes every witness-path
\* query; when only base measures are requested no pair-set query and no
\* witness-path query is made
C24_ProbeOrder ==
    (call.op = "compute_measures") =>
        /\ \A m, n \in ProbesOfKind("violation_check") :
              m < n => res.log[m].at < res.log[n].at
        /\ AllBefore(ProbesOfKind("violation_check"), ProbesOfKind("pair_set"))
        /\ (ProbesOfKind("pair_set") # {} /\ Req \cap BASE_MEASURES # {}) =>
              {res.log[n].at : n \in ProbesOfKind("violation_check")}
                  = 1..Len(call.constraints)
        /\ AllBefore(PairSetsOfSide("lhs"), PairSetsOfSide("rhs"))
        /\ AllBefore(ProbesOfKind("pair_set"), ProbesOfKind("witness_path"))
        /\ ProbesOfKind("witness_path") # {} =>
              /\ Len(res.all_lhs) = Cardinality(PairSetsOfSide("lhs"))
              /\ Len(res.all_rhs) = Cardinality(PairSetsOfSide("rhs"))
        /\ Req \subseteq BASE_MEASURES =>
              ProbesOfKind("pair_set") \cup ProbesOfKind("witness_path") = {}

\* a call on two constraints that made violation checks, pair-set queries of
\* both sides and a witness-path query, and returned
C24_Witness ==
    /\ call.op = "compute_measures"
    /\ res.pc = "done"
    /\ Len(call.constraints) = 2
    /\ Cardinality(ProbesOfKind("violation_check")) = 2
    /\ PairSetsOfSide("lhs") # {}
    /\ PairSetsOfSide("rhs") # {}
    /\ ProbesOfKind("witness_path") # {}


\* only advanced measures are requested: need_fast is empty
OnlyAdvancedRequested ==
    MeasuresReturned /\ Req # {} /\ Req \cap BASE_MEASURES = {}

\* C25: when the requested set contains only advanced measures (none of
\* mu_drastic, mu_violated_constraints, problematic_pairs) the report of
\* every constraint still has ok false iff the constraint has at least one
\* violating pair in the graph
C25_ReportIndependentOfRequest ==
    OnlyAdvancedRequested =>
        \A i \in 1..Len(call.constraints) :
            res.details.per_constraint[i].ok <=> (FullViolations(i) = {})


\* C26: the queries of one check_inclusion invocation are all evaluated
\* against the same database, also when select_instance runs meanwhile: the
\* databases used do not differ, and the report returned is the report of
\* the constraint on that one database
C26_OneDatabasePerInvocation ==
    (call.op = "check_inclusion" /\ res.pc # "raised") =>
        /\ \A m, n \in 1..Len(res.used) : res.used[m] = res.used[n]
        /\ res.pc = "done" =>
              \E db \in DbNames :
                  res.report = CheckInclusion(graph.store[db], call.constraint_str)


\* the labels of the atoms of the sequences of both sides
LabelsOf(rpc) ==
    {Flatten(rpc.lhs \o rpc.rhs)[k].rel : k \in 1..Len(Flatten(rpc.lhs \o rpc.rhs))}

\* the report of a constraint that failed the validation of its symbols
IsSchemaValidation(report) ==
    "type" \in DOMAIN report /\ report.type = "schema_validation"

\* the per-constraint reports of the response, none when the call raised
ReportsOf(response) ==
    IF "details" \in DOMAIN response
    THEN {response.details.per_constraint[k] :
             k \in 1..Len(response.details.per_constraint)}
    ELSE {response}

\* what parse_rpc makes of the constraint of the call, as given and after
\* the pre-pass of check_inclusion and compute_measures
ParsedOfCall ==
    {ParseRpc(call.constraint_str), ParseRpc(ExpandSimpleParentheses(call.constraint_str))}

\* C27: every atom of a constraint accepted by parse_rpc has a label that is
\* not empty after strip(), validate_symbols returns no error for it, and
\* neither check_inclusion nor compute_measures reports 'schema_validation'
C27_AcceptedSymbolsAreNonEmpty ==
    (call.op \in {"check_inclusion", "compute_measures"}) =>
        /\ \A rpc \in ParsedOfCall :
              rpc.ok => /\ \A sym \in LabelsOf(rpc) : ~IsBlank(sym)
                        /\ ValidateSymbols(rpc.lhs, rpc.rhs) = <<>>
        /\ \A report \in ReportsOf(res) : ~IsSchemaValidation(report)

\* compute_measures evaluated an accepted constraint with the labels '_' and
\* 'a'
C27_Witness ==
    /\ call.op = "compute_measures"
    /\ call.constraint_str = <<"C", "=", "_", ".", "a", SubCh, "b">>
    /\ ParseRpc(call.constraint_str).ok
    /\ LabelsOf(ParseRpc(call.constraint_str)) = {"_", "a", "b"}
    /\ "summary" \in DOMAIN res
    /\ Len(res.details.per_constraint) = 1

====
